---- MODULE Spec2Model ----
(***************************************************************************)
(* Store of the federal regulatory comment bot (src/database/db.py): the   *)
(* comment_periods table with its idempotent upsert, the four posting      *)
(* flags, the bot_posts audit table, the time-windowed selections, and the *)
(* notification run that drives a publisher and records each dispatch.     *)
(***************************************************************************)
EXTENDS Integers, Sequences, FiniteSets, TLC

VARIABLES
    comment_periods,   \* committed rows of table comment_periods (a set of rows)
    bot_posts,         \* committed rows of table bot_posts, in insertion order
    sqlite_sequence,   \* AUTOINCREMENT counter of comment_periods
    today,             \* local calendar day, what datetime.now() gives
    utcToday,          \* UTC calendar day, what date('now') and CURRENT_TIMESTAMP give
    dbLocked,          \* a connection left open by a failed upsert still holds the write lock
    mp,                \* the mark_posted call in flight (its arguments and position)
    txn,               \* the uncommitted changes of the mark_posted call in flight
    run,               \* the notification run in progress
    published,         \* history: (period id, milestone) pairs the publisher has accepted
    duplicated,        \* history: pairs the publisher has accepted more than once
    failed,            \* history: pairs for which the publisher has failed
    dispatched,        \* history: pairs a notification run has recorded with mark_posted
    returned,          \* history: (document_id, id) pairs upsert calls have returned
    missed,            \* history: (period id, milestone) pairs whose reminder day passed with no run
    last,              \* the last store operation that finished, with its outcome
    nOps,              \* how many operations have been started (bounded)
    clock,             \* time.time(), in half seconds
    scraper,           \* each scraper instance: rate_limit and last_request_time
    fp,                \* the fetch_page call in progress or just finished
    wire,              \* history: per instance, the times its requests went out
    pg,                \* the pagination pass of get_new_comment_periods
    nRequests,         \* how many requests have been sent (bounded)
    enrichment,        \* the last enrich_period call: its arguments and what it returned
    scrapeRun,         \* the ingestion run (RegulationsGovScraper.scrape) in progress
    upserts            \* upsert calls of concurrent writers, statement by statement

vars == <<comment_periods, bot_posts, sqlite_sequence, today, utcToday, dbLocked,
          mp, txn, run, published, duplicated, failed, dispatched, returned, missed,
          last, nOps, clock, scraper, fp, wire, pg, nRequests,
          enrichment, scrapeRun, upserts>>

\* the variables of the store side, and those of the fetch side
storeSide == <<comment_periods, bot_posts, sqlite_sequence, today, utcToday, dbLocked,
               mp, txn, run, published, duplicated, failed, dispatched, returned,
               missed, last, nOps>>
fetchVars == <<clock, scraper, fp, wire, pg, nRequests, enrichment, scrapeRun, upserts>>
fetchSide == <<clock, scraper, fp, wire, pg, nRequests, enrichment, scrapeRun>>

----------------------------------------------------------------------------
(* Bounds of the exploration *)

\* operations (upserts, mark_posted calls, notification runs, midnights, kills)
\* started in one behaviour
MaxOps == 4

----------------------------------------------------------------------------
(* Values *)

\* SQL NULL and Python None (sqlite3 maps one to the other)
NULL == "NULL"

PostedFlags == {"posted_new", "posted_7day_reminder", "posted_3day_reminder",
                "posted_last_day"}

Columns == {"id", "document_id", "docket_id", "title", "agency_id", "agency_name",
            "document_type", "posted_date", "comment_start_date", "comment_end_date",
            "abstract", "summary", "regulations_url", "federal_register_url",
            "details_url", "topics", "keywords", "source_url",
            "created_at", "updated_at"} \cup PostedFlags

\* value of a column the INSERT does not name
ColumnDefault(c, now) ==
    IF c \in PostedFlags THEN 0
    ELSE IF c \in {"created_at", "updated_at"} THEN now
    ELSE NULL

\* a table without the constraint
CheckConstraint_none(row) == TRUE

\* CHECK (comment_end_date >= posted_date)
CheckConstraint(row) == row["comment_end_date"] >= row["posted_date"]

----------------------------------------------------------------------------
(* upsert_comment_period *)

optional_fields == {"document_type", "comment_start_date", "abstract", "summary",
                    "federal_register_url", "details_url", "topics", "keywords",
                    "source_url"}

base_fields == {"document_id", "docket_id", "title", "agency_id", "agency_name",
                "posted_date", "comment_end_date", "regulations_url"}

\* A draft is the argument list of one call: the eight named arguments, the
\* keyword arguments that carry a value (kwargs) and the keys of those passed as None.
KwargKeys(d) == (DOMAIN d.kwargs) \cup d.none_kwargs

provided_optional_unfiltered(d) == {k \in KwargKeys(d) : k \notin d.none_kwargs}

\* {k: v for k, v in kwargs.items() if k in optional_fields and v is not None}
provided_optional(d) ==
    {k \in KwargKeys(d) : k \in optional_fields /\ k \notin d.none_kwargs}

fields_all_optional(d) == base_fields \cup optional_fields

\* fields = [the eight base fields] + list(provided_optional.keys())
fields(d) == base_fields \cup provided_optional(d)

\* the VALUES row: the value the statement carries for each named field
excluded(d) ==
    [c \in fields(d) |->
        IF c \in base_fields THEN d[c]
        ELSE IF c \in DOMAIN d.kwargs THEN d.kwargs[c]
        ELSE NULL]

\* the row a plain INSERT creates
InsertedRow(d, id, now) ==
    [c \in Columns |->
        IF c = "id" THEN id
        ELSE IF c \in fields(d) THEN excluded(d)[c]
        ELSE ColumnDefault(c, now)]

\* DO UPDATE SET field=excluded.field for each field but document_id,
\* updated_at=CURRENT_TIMESTAMP; the row keeps its id
ConflictUpdate(row, d, now) ==
    [c \in Columns |->
        IF c \in fields(d) \ {"document_id"} THEN excluded(d)[c]
        ELSE IF c = "updated_at" THEN now
        ELSE row[c]]

\* ON CONFLICT(document_id): the rows the UNIQUE index finds for the new key
Conflicting(table, d) == {r \in table : r["document_id"] = d.document_id}

UpsertRow_replace(table, d, seq, now) == InsertedRow(d, seq + 1, now)

\* The row the statement writes: a new row under the next AUTOINCREMENT id, or
\* the conflicting row updated in place.
UpsertRow(table, d, seq, now) ==
    IF Conflicting(table, d) = {}
    THEN InsertedRow(d, seq + 1, now)
    ELSE ConflictUpdate(CHOOSE r \in Conflicting(table, d) : TRUE, d, now)

\* The table after the statement
UpsertTable(table, d, seq, now) ==
    (table \ Conflicting(table, d)) \cup {UpsertRow(table, d, seq, now)}

\* cursor.lastrowid on the fresh connection: the new rowid after an insert, 0
\* when the statement took the DO UPDATE path
lastrowid(table, d, seq) ==
    IF Conflicting(table, d) = {} THEN seq + 1 ELSE 0

period_id_lastrowid(table, d, seq, after) == lastrowid(table, d, seq)

\* period_id = cursor.lastrowid if cursor.lastrowid > 0 else SELECT id ... WHERE document_id = ?
period_id(table, d, seq, after) ==
    IF lastrowid(table, d, seq) > 0
    THEN lastrowid(table, d, seq)
    ELSE (CHOOSE r \in after : r["document_id"] = d.document_id)["id"]

----------------------------------------------------------------------------
(* Inputs *)

MkDraft(doc, title, posted, end, kw, nonekw) ==
    [document_id |-> doc, docket_id |-> doc, title |-> title, agency_id |-> "EPA",
     agency_name |-> "Agency", posted_date |-> posted, comment_end_date |-> end,
     regulations_url |-> "url", kwargs |-> kw, none_kwargs |-> nonekw]

NoKwargs == [k \in {} |-> NULL]

\* The drafts ingestion hands to upsert: a full draft; a partial draft of the
\* same document with a changed title, deadline and topics, abstract=None and
\* a keyword that names no optional field; a draft of a second document; and a
\* draft of it whose deadline lies before its posting date.
Drafts ==
    { MkDraft("EPA-1", "t1", 0, 7, [abstract |-> "a1", topics |-> "tp"], {}),
      MkDraft("EPA-1", "t2", 0, 3,
              [topics |-> "tq", document_type |-> "Rule", posted_new |-> 0], {"abstract"}),
      MkDraft("FDA-2", "t1", 0, 1, NoKwargs, {}),
      MkDraft("FDA-2", "t2", 1, 0, [abstract |-> "a1"], {}) }

----------------------------------------------------------------------------
(* mark_posted *)

PostTypes == {"new", "7day", "3day", "last_day"}

field_map_shifted(post_type) ==
    CASE post_type = "new" -> "posted_7day_reminder"
      [] post_type = "7day" -> "posted_3day_reminder"
      [] post_type = "3day" -> "posted_last_day"
      [] post_type = "last_day" -> "posted_new"

\* field_map: post_type -> flag column
field_map(post_type) ==
    CASE post_type = "new" -> "posted_new"
      [] post_type = "7day" -> "posted_7day_reminder"
      [] post_type = "3day" -> "posted_3day_reminder"
      [] post_type = "last_day" -> "posted_last_day"

\* field_map.get(post_type, 'posted_new'): an unknown post_type is taken as 'new'
checked_field_default(post_type) ==
    IF post_type \in PostTypes THEN field_map(post_type) ELSE "posted_new"

\* "if post_type not in field_map: raise ValueError", else field_map[post_type]
checked_field(post_type) ==
    IF post_type \in PostTypes THEN field_map(post_type) ELSE "ValueError"

SetFlag_every_row(table, id, field) == {[r EXCEPT ![field] = 1] : r \in table}

\* UPDATE comment_periods SET {field} = 1 WHERE id = ?
SetFlag(table, id, field) ==
    {IF r["id"] = id THEN [r EXCEPT ![field] = 1] ELSE r : r \in table}

\* "if post_uri:" is false for None and for the empty string
Truthy(post_uri) == post_uri /= NULL /\ post_uri /= ""

\* INSERT INTO bot_posts (comment_period_id, post_type, post_uri) VALUES (?, ?, ?)
PostRow(id, post_type, post_uri) ==
    [comment_period_id |-> id, post_type |-> post_type, post_uri |-> post_uri]

UncommittedVisible_autocommit == TRUE

\* sqlite3.connect() with the default isolation_level opens a transaction before
\* the first UPDATE/INSERT: nothing is visible to other connections before commit()
UncommittedVisible == FALSE

NoCall == [pc |-> "none", period_id |-> 0, post_type |-> "", post_uri |-> NULL,
           caller |-> ""]

NoTxn == [open |-> FALSE, rows |-> {}, posts |-> <<>>]

----------------------------------------------------------------------------
(* Queries *)

\* collation order of the text values used for agency_id and title
TextRank(s) == CASE s = "t1" -> 1 [] s = "t2" -> 2 [] OTHER -> 0

\* all the lists that hold each row of S once
ListsOf(S) ==
    {f \in [1..Cardinality(S) -> S] : \A i, j \in 1..Cardinality(S) : f[i] = f[j] => i = j}

\* LIMIT n
Limit(list, n) == IF Len(list) > n THEN SubSeq(list, 1, n) ELSE list

get_new_comment_periods_any_flag(table, days, limit, localDay, utcDay) ==
    LET cutoff_date == localDay - days
        S == {r \in table : /\ r["posted_date"] >= cutoff_date
                            /\ r["comment_end_date"] >= utcDay}
        ordered == {l \in ListsOf(S) :
                      \A i, j \in 1..Len(l) :
                          i < j => l[i]["posted_date"] >= l[j]["posted_date"]}
    IN  IF limit /= 0 THEN {Limit(l, limit) : l \in ordered} ELSE ordered

\* get_new_comment_periods(days, limit): the lists the query can return
\* (rows of equal posted_date come in no promised order); limit 0 stands for None
get_new_comment_periods(table, days, limit, localDay, utcDay) ==
    LET cutoff_date == localDay - days
        S == {r \in table : /\ r["posted_date"] >= cutoff_date
                            /\ r["posted_new"] = 0
                            /\ r["comment_end_date"] >= utcDay}
        ordered == {l \in ListsOf(S) :
                      \A i, j \in 1..Len(l) :
                          i < j => l[i]["posted_date"] >= l[j]["posted_date"]}
    IN  IF limit /= 0 THEN {Limit(l, limit) : l \in ordered} ELSE ordered

reminder_field_shifted(days) ==
    CASE days = 7 -> "posted_3day_reminder"
      [] days = 3 -> "posted_last_day"
      [] days = 1 -> "posted_7day_reminder"

\* the reminder flag get_closing_soon checks for a number of days
reminder_field(days) ==
    CASE days = 7 -> "posted_7day_reminder"
      [] days = 3 -> "posted_3day_reminder"
      [] days = 1 -> "posted_last_day"

\* the same selection with the deadline anywhere up to the target day
get_closing_soon_within(table, days, localDay) ==
    LET target_date == localDay + days
        S == {r \in table : /\ r["comment_end_date"] <= target_date
                            /\ r["comment_end_date"] >= localDay
                            /\ r[reminder_field(days)] = 0}
    IN  {l \in ListsOf(S) :
            \A i, j \in 1..Len(l) :
                i < j => \/ TextRank(l[i]["agency_id"]) < TextRank(l[j]["agency_id"])
                         \/ /\ l[i]["agency_id"] = l[j]["agency_id"]
                            /\ TextRank(l[i]["title"]) <= TextRank(l[j]["title"])}

\* the same selection with the deadline on the target day or before it
get_closing_soon_overdue(table, days, localDay) ==
    LET target_date == localDay + days
        S == {r \in table : /\ r["comment_end_date"] <= target_date
                            /\ r[reminder_field(days)] = 0}
    IN  {l \in ListsOf(S) :
            \A i, j \in 1..Len(l) :
                i < j => \/ TextRank(l[i]["agency_id"]) < TextRank(l[j]["agency_id"])
                         \/ /\ l[i]["agency_id"] = l[j]["agency_id"]
                            /\ TextRank(l[i]["title"]) <= TextRank(l[j]["title"])}

\* get_closing_soon(days) for days in {7, 3, 1}: the lists the query can return
get_closing_soon(table, days, localDay) ==
    LET target_date == localDay + days
        S == {r \in table : /\ r["comment_end_date"] = target_date
                            /\ r[reminder_field(days)] = 0}
    IN  {l \in ListsOf(S) :
            \A i, j \in 1..Len(l) :
                i < j => \/ TextRank(l[i]["agency_id"]) < TextRank(l[j]["agency_id"])
                         \/ /\ l[i]["agency_id"] = l[j]["agency_id"]
                            /\ TextRank(l[i]["title"]) <= TextRank(l[j]["title"])}

\* a query that marked what it returned
select_effect_marking(table, result) ==
    {IF \E i \in 1..Len(result) : result[i]["id"] = r["id"]
        THEN [r EXCEPT !["posted_new"] = 1] ELSE r : r \in table}

\* the table after cursor.execute("SELECT ..."), fetchall() and conn.close():
\* a SELECT writes no row and the connection is closed without a commit
select_effect(table, result) == table

\* get_all_open_periods(): the lists the query can return
get_all_open_periods(table, utcDay) ==
    LET S == {r \in table : r["comment_end_date"] >= utcDay}
    IN  {l \in ListsOf(S) :
            \A i, j \in 1..Len(l) :
                i < j => l[i]["comment_end_date"] <= l[j]["comment_end_date"]}

\* get_period_by_document_id(document_id): the row as a list of one, or none
get_period_by_document_id(table, document_id) ==
    LET S == {r \in table : r["document_id"] = document_id}
    IN  IF S = {} THEN {<<>>} ELSE {<<r>> : r \in S}

----------------------------------------------------------------------------
(* Fetch engine (src/scrapers/base.py): values *)

\* requests sent in one behaviour
MaxRequests == 4

\* pages the upstream search can have
MaxPages == 3

\* the scraper instances: the one of the run, and the one an enrichment creates
Instances == {"RegulationsGovScraper", "FederalRegisterScraper"}

\* seconds as clock units (half seconds)
Seconds(n) == 2 * n

\* the rate_limit an instance is constructed with: 1.0 s and 0.5 s
rate_limit(inst) == IF inst = "RegulationsGovScraper" THEN Seconds(1) ELSE 1

\* BaseScraper.__init__
NewScraper(inst) == [rate_limit |-> rate_limit(inst), last_request_time |-> 0]

\* time.time() when the process starts
StartTime == 10

\* fetch_page(max_retries=3)
max_retries == 3

\* how long a request takes to be answered or to fail, in clock units
Latencies == {0, 1}

\* the Retry-After header of a 429 response: absent, an integer of seconds,
\* or an HTTP date
RetryAfterHeaders == {"absent", "0", "2", "Wed, 21 Oct 2026 07:28:00 GMT"}

\* the strings int() accepts, and their values
IsIntegerText(h) == h \in {"0", "2"}
int(h) == CASE h = "0" -> 0 [] h = "2" -> 2

\* what the body of a 2xx response can be: a page of the search with its
\* meta, a page with no meta, JSON with no 'data', not JSON; or one document
PageBodies == {"page", "no_meta", "no_data", "invalid_json"}
DocumentBodies == {"document", "invalid_json"}

\* no fetch_page call in progress
NoFetch == [pc |-> "none", self |-> "", caller |-> "", attempt |-> 0, result |-> "none",
            outcomes |-> <<>>, slept |-> 0, body |-> ""]

\* no pagination pass in progress
NoPagination == [pc |-> "idle", page |-> 0, totalPages |-> 0, all_documents |-> <<>>,
                 served |-> <<>>, reported |-> <<>>, failedPage |-> 0]

----------------------------------------------------------------------------
(* Enrichment (src/scrapers/federal_register.py): values *)

\* a dict with one more key
Put(dict, k, v) == [x \in DOMAIN dict \cup {k} |-> IF x = k THEN v ELSE dict[x]]

\* dict.get(k) for the keys that hold text; None is NULL
GetText(dict, k) == IF k \in DOMAIN dict THEN dict[k] ELSE NULL

\* truth of a text value: neither None nor the empty string
TruthyText(v) == v /= NULL /\ v /= ""

\* dict.get(k) for the keys that hold a list, or a text of ', '-separated
\* tokens (kept as the list of its tokens); a missing key gives the empty list
GetList(dict, k) == IF k \in DOMAIN dict THEN dict[k] ELSE <<>>

\* the dict with no key
EmptyDict == [k \in {} |-> NULL]

\* the parsed periods enrich_period is given: a document with or without an
\* abstract, a document type, keywords and a Federal Register URL
FrUrls == {"", "/", "https://www.federalregister.gov/documents/2026-00783",
           "https://www.federalregister.gov/documents/2026-00783/"}

WithText(dicts, k, values) ==
    dicts \cup {Put(dict, k, v) : dict \in dicts, v \in values}

Periods ==
    LET p0 == {[document_id |-> "EPA-1"]}
        p1 == WithText(p0, "abstract", {"", NULL, "primary abstract"})
        p2 == WithText(p1, "document_type", {"", "Proposed Rule"})
        p3 == WithText(p2, "keywords", {<<>>, <<"RIN: 2060-AV16">>, <<"water", "air">>})
    IN  WithText(p3, "federal_register_url", FrUrls)

\* what get_document returns for a document number: None when the fetch or
\* the parse fails, else the document, a dict that may lack any of its keys
FrDocuments ==
    LET d1 == WithText({EmptyDict}, "abstract", {"", NULL, "secondary abstract"})
        d2 == WithText(d1, "topics", {<<>>, <<"air">>, <<"water", "Air quality">>,
                                      <<"Air quality", "water", "water">>,
                                      <<"Banks, banking">>})
    IN  WithText(d2, "action", {"", "Notice"})

GetDocumentResults ==
    {[found |-> FALSE, doc |-> EmptyDict]} \cup {[found |-> TRUE, doc |-> d] : d \in FrDocuments}

NoEnrichment == [pc |-> "none", period |-> EmptyDict, argument |-> EmptyDict,
                 fr_doc |-> [found |-> FALSE, doc |-> EmptyDict], enhanced |-> EmptyDict,
                 again |-> EmptyDict]

----------------------------------------------------------------------------
(* Ingestion run (src/scrapers/regulations_gov.py): values *)

\* documents one search can return
MaxDocuments == 2

\* an item of the search result: its id and its attributes
RawDocument(id, open, posted, end, frDocNum) ==
    [kind |-> "dict", id |-> id,
     attributes |-> [openForComment |-> open, postedDate |-> posted,
                     commentEndDate |-> end, frDocNum |-> frDocNum]]

\* The items the search serves: an open document with a Federal Register
\* number, an open document without one, a later version of it whose
\* deadline lies before its posting date, a document closed for comment, and
\* an item that is no JSON object (null).
RawDocuments ==
    { RawDocument("EPA-1", TRUE, 0, 7, "2026-00783"),
      RawDocument("FDA-2", TRUE, 0, 1, NULL),
      RawDocument("FDA-2", TRUE, 1, 0, NULL),
      RawDocument("DOT-3", FALSE, 0, 7, NULL),
      [kind |-> "null", id |-> "",
       attributes |-> [openForComment |-> FALSE, postedDate |-> 0,
                       commentEndDate |-> 0, frDocNum |-> NULL]] }

\* the lists get_new_comment_periods can return
DocumentLists ==
    {list \in UNION {[1..n -> RawDocuments] : n \in 0..MaxDocuments} :
        \A i \in 1..Len(list) : \A j \in 1..Len(list) : i /= j => list[i] /= list[j]}

\* how get_new_comment_periods ends: every page fetched, a page fetch failed
\* (the loop breaks and returns the pages before it), an exception left it
PaginationOutcomes == {"complete", "page_failed", "raised"}

\* data['data']['attributes'] of the details endpoint
DetailAttributes ==
    LET a1 == WithText({EmptyDict}, "summary", {"detail summary"})
        a2 == WithText(a1, "frDocNum", {"2026-00783"})
    IN  WithText(a2, "rin", {"2060-AV16"})

\* how get_document_details ends: the details, None (fetch_page returned None
\* or the body is no JSON), or the exception that left fetch_page
DetailsResults ==
    {[exit |-> "None", attrs |-> EmptyDict], [exit |-> "ValueError", attrs |-> EmptyDict]}
      \cup {[exit |-> "details", attrs |-> a] : a \in DetailAttributes}

\* how get_document ends in enrich_with_federal_register: None, a document,
\* or the exception that left fetch_page
FederalRegisterResults ==
    { [exit |-> "None", got |-> [found |-> FALSE, doc |-> EmptyDict]],
      [exit |-> "ValueError", got |-> [found |-> FALSE, doc |-> EmptyDict]],
      [exit |-> "document",
       got |-> [found |-> TRUE,
                doc |-> [abstract |-> "secondary abstract", topics |-> <<"water", "air">>,
                         action |-> "Notice"]]] }

\* stats = {'fetched': 0, 'parsed': 0, 'new': 0, 'updated': 0, 'errors': 0}
NoStats == [fetched |-> 0, parsed |-> 0, new |-> 0, updated |-> 0, errors |-> 0]

\* what is noted of the document being processed
NoTrace == [index |-> 0, details |-> "not_called", secondary |-> "not_called",
            primary |-> EmptyDict, merged |-> EmptyDict, outcome |-> "none"]

NoScrape == [pc |-> "idle", dry_run |-> FALSE, enrich |-> TRUE, pagination |-> "none",
             documents |-> <<>>, i |-> 0, parsed |-> EmptyDict, stats |-> NoStats,
             summary |-> FALSE, requests |-> <<>>, trace |-> NoTrace, history |-> <<>>,
             before |-> [comment_periods |-> {}, bot_posts |-> <<>>],
             store_available |-> TRUE]

----------------------------------------------------------------------------
(* Initial state: the schema just created, no call in progress *)

NoRun == [pc |-> "idle", milestone |-> "", todo |-> <<>>, calls |-> 0,
          snapshot |-> <<>>, attempted |-> <<>>]

NoDraft == MkDraft("", "", 0, 0, NoKwargs, {})

\* an outcome: the operation, the row id it returned or was given, the draft of
\* an upsert, the post_type and post_uri of a mark_posted
Event(op, id, d, post_type, post_uri) ==
    [op |-> op, period_id |-> id, draft |-> d, post_type |-> post_type,
     post_uri |-> post_uri]

\* concurrent writers
Writers == {"w1", "w2"}

\* an upsert call of a writer: its position, its draft, what its statement
\* has written and not yet committed, and whether another call was in
\* progress when it started
NoUpsert == [pc |-> "idle", draft |-> NoDraft, pending |-> {}, lastrowid |-> 0,
             period_id |-> 0, concurrent |-> FALSE]

\* the calls, and the writers in the order of their commits
NoUpserts == [calls |-> [w \in Writers |-> NoUpsert], order |-> <<>>]

Init ==
    /\ comment_periods = {}
    /\ bot_posts = <<>>
    /\ sqlite_sequence = 0
    /\ today = 0
    /\ utcToday = 0
    /\ dbLocked = FALSE
    /\ mp = NoCall
    /\ txn = NoTxn
    /\ run = NoRun
    /\ published = {}
    /\ duplicated = {}
    /\ failed = {}
    /\ dispatched = {}
    /\ returned = {}
    /\ missed = {}
    /\ last = Event("none", 0, NoDraft, "", NULL)
    /\ nOps = 0
    /\ clock = StartTime
    /\ scraper = [inst \in Instances |-> NewScraper(inst)]
    /\ fp = NoFetch
    /\ wire = [inst \in Instances |-> <<>>]
    /\ pg = NoPagination
    /\ nRequests = 0
    /\ enrichment = NoEnrichment
    /\ scrapeRun = NoScrape
    /\ upserts = NoUpserts

clockVars == <<today, utcToday>>
storeVars == <<comment_periods, bot_posts, sqlite_sequence>>
historyVars == <<published, duplicated, failed, dispatched, returned>>

\* no run and no call of this design is in progress (the single-writer assumption)
Quiet == run.pc = "idle" /\ mp.pc = "none"

----------------------------------------------------------------------------
(* Ingestion: upsert_comment_period *)

\* sqlite3.connect(DB_PATH) of get_connection raises OperationalError ("unable
\* to open database file") for the whole of a run whose store cannot be reached
ConnectFails(r) == ~r.store_available

\* the statement violates the CHECK constraint, or the store is locked
UpsertFails(d) ==
    \/ dbLocked
    \/ ~CheckConstraint(UpsertRow(comment_periods, d, sqlite_sequence, utcToday))

\* cursor.execute(sql, values); conn.commit(); the id is read back; conn.close()
Upsert(d) ==
    /\ Quiet
    /\ nOps < MaxOps
    /\ ~UpsertFails(d)
    /\ comment_periods' = UpsertTable(comment_periods, d, sqlite_sequence, utcToday)
    /\ sqlite_sequence' = sqlite_sequence + 1
    /\ LET id == period_id(comment_periods, d, sqlite_sequence, comment_periods')
       IN  /\ last' = Event(IF Conflicting(comment_periods, d) = {}
                            THEN "upsert_insert" ELSE "upsert_update", id, d, "", NULL)
           /\ returned' = returned \cup {<<d.document_id, id>>}
    /\ nOps' = nOps + 1
    /\ UNCHANGED <<bot_posts, clockVars, missed, fetchVars, dbLocked, mp, txn, run, published, duplicated,
                   failed, dispatched>>

\* cursor.execute raises (IntegrityError, or OperationalError "database is
\* locked"): nothing is committed and conn.close() is never reached, so the
\* connection of a failed INSERT keeps the write lock until it is collected
UpsertRaises(d) ==
    /\ Quiet
    /\ nOps < MaxOps
    /\ UpsertFails(d)
    /\ dbLocked' \in IF dbLocked THEN {TRUE} ELSE {TRUE, FALSE}
    /\ last' = Event("upsert_raise", 0, d, "", NULL)
    /\ nOps' = nOps + 1
    /\ UNCHANGED <<storeVars, clockVars, missed, fetchVars, mp, txn, run, historyVars>>

\* the abandoned connection is collected (or its process ends): rollback, lock released
ReleaseLock ==
    /\ dbLocked
    /\ dbLocked' = FALSE
    /\ UNCHANGED <<storeVars, clockVars, missed, fetchVars, mp, txn, run, historyVars, last, nOps>>

----------------------------------------------------------------------------
(* mark_posted(period_id, post_type, post_uri), statement by statement *)

\* what the caller does when mark_posted has returned
AfterMark ==
    IF mp.caller = "notifier"
    THEN /\ dispatched' = dispatched \cup {<<mp.period_id, run.milestone>>}
         /\ run' = [run EXCEPT !.todo = Tail(run.todo),
                               !.pc = IF Tail(run.todo) = <<>> THEN "idle" ELSE "publish"]
         /\ UNCHANGED <<published, duplicated, failed, returned>>
    ELSE UNCHANGED <<run, historyVars>>

\* the call validates post_type and opens its connection
MarkPostedCall(id, post_type, post_uri) ==
    /\ Quiet
    /\ nOps < MaxOps
    /\ checked_field(post_type) /= "ValueError"
    /\ mp' = [pc |-> "update", period_id |-> id, post_type |-> post_type,
              post_uri |-> post_uri, caller |-> "api"]
    /\ nOps' = nOps + 1
    /\ UNCHANGED <<storeVars, clockVars, missed, fetchVars, dbLocked, txn, run, historyVars, last>>

\* raise ValueError(f"Invalid post_type: {post_type}")
MarkPostedInvalid(id, post_type, post_uri) ==
    /\ Quiet
    /\ nOps < MaxOps
    /\ checked_field(post_type) = "ValueError"
    /\ last' = Event("mark_invalid", id, NoDraft, post_type, post_uri)
    /\ nOps' = nOps + 1
    /\ UNCHANGED <<storeVars, clockVars, missed, fetchVars, dbLocked, mp, txn, run, historyVars>>

\* cursor.execute("UPDATE comment_periods SET {field} = 1 WHERE id = ?")
MarkPostedUpdate ==
    /\ mp.pc = "update"
    /\ ~dbLocked
    /\ LET rows == SetFlag(comment_periods, mp.period_id, checked_field(mp.post_type))
       IN  /\ txn' = [open |-> TRUE, rows |-> rows, posts |-> bot_posts]
           /\ comment_periods' = IF UncommittedVisible THEN rows ELSE comment_periods
    /\ mp' = [mp EXCEPT !.pc = IF Truthy(mp.post_uri) THEN "insert" ELSE "commit"]
    /\ UNCHANGED <<bot_posts, sqlite_sequence, clockVars, missed, fetchVars, dbLocked, run, historyVars,
                   last, nOps>>

\* the UPDATE raises OperationalError: the store is locked
MarkPostedBusy ==
    /\ mp.pc = "update"
    /\ dbLocked
    /\ mp' = NoCall
    /\ last' = Event("mark_raise", mp.period_id, NoDraft, mp.post_type, mp.post_uri)
    /\ UNCHANGED <<storeVars, clockVars, missed, fetchVars, dbLocked, txn, run, historyVars, nOps>>

\* if post_uri: cursor.execute("INSERT INTO bot_posts ...")
MarkPostedInsert ==
    /\ mp.pc = "insert"
    /\ LET posts == Append(txn.posts, PostRow(mp.period_id, mp.post_type, mp.post_uri))
       IN  /\ txn' = [txn EXCEPT !.posts = posts]
           /\ bot_posts' = IF UncommittedVisible THEN posts ELSE bot_posts
    /\ mp' = [mp EXCEPT !.pc = "commit"]
    /\ UNCHANGED <<comment_periods, sqlite_sequence, clockVars, missed, fetchVars, dbLocked, run,
                   historyVars, last, nOps>>

\* conn.commit(); conn.close()
MarkPostedCommit ==
    /\ mp.pc = "commit"
    /\ comment_periods' = txn.rows
    /\ bot_posts' = txn.posts
    /\ txn' = NoTxn
    /\ mp' = NoCall
    /\ last' = Event("mark_posted", mp.period_id, NoDraft, mp.post_type, mp.post_uri)
    /\ AfterMark
    /\ UNCHANGED <<sqlite_sequence, clockVars, missed, fetchVars, dbLocked, nOps>>

----------------------------------------------------------------------------
(* Notification run: select the eligible periods once, then for each of them
   publish and, on success, mark_posted *)

Milestones == PostTypes

MilestoneDays(m) == CASE m = "7day" -> 7 [] m = "3day" -> 3 [] m = "last_day" -> 1

\* default of get_new_comment_periods(days=1)
DefaultLookback == 1

\* the receipts the publisher hands back
Receipts == {"at://post/1"}

\* the lists the selection of a milestone can return on a given day
EligibleOn(table, m, localDay, utcDay) ==
    IF m = "new"
    THEN get_new_comment_periods(table, DefaultLookback, 0, localDay, utcDay)
    ELSE get_closing_soon(table, MilestoneDays(m), localDay)

\* the lists the selection of a milestone can return in the current state
Eligible(m) == EligibleOn(comment_periods, m, today, utcToday)

NotifierStart(m) ==
    /\ Quiet
    /\ ~dbLocked
    /\ nOps < MaxOps
    /\ \E snapshot \in Eligible(m) :
          run' = [pc |-> IF snapshot = <<>> THEN "idle" ELSE "publish",
                  milestone |-> m,
                  todo |-> [i \in 1..Len(snapshot) |-> snapshot[i]["id"]],
                  calls |-> 0,
                  snapshot |-> [i \in 1..Len(snapshot) |-> snapshot[i]["id"]],
                  attempted |-> <<>>]
    /\ nOps' = nOps + 1
    /\ UNCHANGED <<storeVars, clockVars, missed, fetchVars, dbLocked, mp, txn, historyVars, last>>

\* the publisher accepts the notification of the next period: mark_posted is called
PublishSucceeds(receipt) ==
    /\ run.pc = "publish"
    /\ LET p == <<Head(run.todo), run.milestone>>
       IN  /\ published' = published \cup {p}
           /\ duplicated' = IF p \in published THEN duplicated \cup {p} ELSE duplicated
    /\ mp' = [pc |-> "update", period_id |-> Head(run.todo),
              post_type |-> run.milestone, post_uri |-> receipt, caller |-> "notifier"]
    /\ run' = [run EXCEPT !.pc = "mark", !.calls = run.calls + 1,
                          !.attempted = Append(run.attempted, Head(run.todo))]
    /\ UNCHANGED <<storeVars, clockVars, missed, fetchVars, dbLocked, txn, failed, dispatched, returned,
                   last, nOps>>

\* the run after a publisher failure: log and continue with the next period
NextAfterFailure(r) ==
    [r EXCEPT !.todo = Tail(r.todo),
              !.pc = IF Tail(r.todo) = <<>> THEN "idle" ELSE "publish",
              !.calls = r.calls + 1,
              !.attempted = Append(r.attempted, Head(r.todo))]

\* the publisher fails for the next period
PublishFails ==
    /\ run.pc = "publish"
    /\ failed' = failed \cup {<<Head(run.todo), run.milestone>>}
    /\ run' = NextAfterFailure(run)
    /\ last' = Event("publish_fail", Head(run.todo), NoDraft, run.milestone, NULL)
    /\ UNCHANGED <<storeVars, clockVars, missed, fetchVars, dbLocked, mp, txn, published, duplicated,
                   dispatched, returned, nOps>>

----------------------------------------------------------------------------
(* Environment: the calendar, and abrupt termination *)

\* the milestones get_closing_soon serves
ReminderMilestones == {"7day", "3day", "last_day"}

\* the stored periods whose reminder day ends with the flag still 0, no run
\* having selected them for that milestone
MissedToday ==
    {p \in {r["id"] : r \in comment_periods} \X ReminderMilestones :
        /\ \E r \in comment_periods :
              /\ r["id"] = p[1]
              /\ r["comment_end_date"] = today + MilestoneDays(p[2])
              /\ r[reminder_field(MilestoneDays(p[2]))] = 0
        /\ p \notin published \cup failed
        /\ ~(run.pc /= "idle" /\ run.milestone = p[2]
                              /\ \E i \in 1..Len(run.todo) : run.todo[i] = p[1])}

\* midnight, local time
TickLocal ==
    /\ nOps < MaxOps
    /\ today + 1 - utcToday <= 1
    /\ today' = today + 1
    /\ missed' = missed \cup MissedToday
    /\ nOps' = nOps + 1
    /\ UNCHANGED <<storeVars, utcToday, fetchVars, dbLocked, mp, txn, run, historyVars, last>>

TickUtc ==
    /\ nOps < MaxOps
    /\ utcToday + 1 - today <= 1
    /\ utcToday' = utcToday + 1
    /\ nOps' = nOps + 1
    /\ UNCHANGED <<storeVars, today, missed, fetchVars, dbLocked, mp, txn, run, historyVars, last>>

\* the running process is killed: its open transaction is rolled back, what
\* was committed stays
Kill ==
    /\ ~Quiet
    /\ nOps < MaxOps
    /\ mp' = NoCall
    /\ txn' = NoTxn
    /\ run' = NoRun
    /\ last' = Event(IF txn.open THEN "kill_in_transaction" ELSE "kill", mp.period_id,
                     NoDraft, mp.post_type, mp.post_uri)
    /\ nOps' = nOps + 1
    /\ UNCHANGED <<storeVars, clockVars, missed, fetchVars, dbLocked, historyVars>>

----------------------------------------------------------------------------
(* Fetch engine: BaseScraper._rate_limit and BaseScraper.fetch_page *)

\* _rate_limit: how long it sleeps at a given time
RateLimitSleep(sc, now) ==
    LET elapsed == now - sc.last_request_time
    IN  IF elapsed < sc.rate_limit THEN sc.rate_limit - elapsed ELSE 0

\* fetch_page up to its retry loop: _rate_limit sleeps if needed and notes the time
FetchPageEnter(inst, sc, caller) ==
    /\ fp.pc = "none"
    /\ LET sleep_time == RateLimitSleep(sc, clock)
       IN  /\ clock' = clock + sleep_time
           /\ scraper' = [scraper EXCEPT ![inst] =
                             [sc EXCEPT !.last_request_time = clock + sleep_time]]
    /\ fp' = [NoFetch EXCEPT !.pc = "attempt", !.self = inst, !.caller = caller]
    /\ UNCHANGED nRequests

\* what each branch of the retry loop does: how long it sleeps (seconds), and
\* how it leaves the iteration: "continue" with the next attempt, return the
\* response, return None, or let an exception escape
on_success(attempt) == [sleep |-> 0, exit |-> "response"]

on_429(h, attempt) ==
    IF h = "absent" THEN [sleep |-> 60, exit |-> "continue"]
    ELSE IF IsIntegerText(h) THEN [sleep |-> int(h), exit |-> "continue"]
    ELSE [sleep |-> 0, exit |-> "ValueError"]

on_5xx(attempt) == [sleep |-> 2 ^ attempt, exit |-> "continue"]

\* a client error retried like a server error
on_4xx_retried(attempt) == [sleep |-> 2 ^ attempt, exit |-> "continue"]

on_4xx(attempt) == [sleep |-> 0, exit |-> "None"]

\* a timeout retried after a fixed second
on_timeout_fixed(attempt) == [sleep |-> 1, exit |-> "continue"]

on_timeout(attempt) == [sleep |-> 2 ^ attempt, exit |-> "continue"]

on_connection_error(attempt) == [sleep |-> 2 ^ attempt, exit |-> "continue"]

on_request_exception(attempt) == [sleep |-> 0, exit |-> "None"]

\* a loop that retries until it gets an answer
attempts_left_always(attempt) == TRUE

\* "for attempt in range(max_retries)": there is an iteration after this one
attempts_left(attempt) == attempt + 1 < max_retries

\* one iteration of the retry loop: the request goes out, its outcome arrives
\* after the latency, the branch sleeps, and the loop goes on or the call ends
\* (with None when the attempts are used up)
Iteration(outcome, latency, branch, body) ==
    /\ fp.pc = "attempt"
    /\ nRequests < MaxRequests
    /\ nRequests' = nRequests + 1
    /\ wire' = [wire EXCEPT ![fp.self] = Append(@, clock)]
    /\ clock' = clock + latency + Seconds(branch.sleep)
    /\ fp' = [fp EXCEPT
                !.outcomes = Append(@, outcome),
                !.slept = Seconds(branch.sleep),
                !.body = body,
                !.attempt = IF branch.exit = "continue" THEN @ + 1 ELSE @,
                !.pc = IF branch.exit = "continue"
                       THEN (IF attempts_left(fp.attempt) THEN "attempt" ELSE "returned")
                       ELSE IF branch.exit = "ValueError" THEN "raised" ELSE "returned",
                !.result = IF branch.exit = "continue"
                           THEN (IF attempts_left(fp.attempt) THEN "none" ELSE "None")
                           ELSE branch.exit]
    /\ UNCHANGED <<storeSide, enrichment, scrapeRun, upserts, scraper, pg>>

\* the bodies a caller's request can be answered with
BodiesFor(caller) == IF caller = "pagination" THEN PageBodies ELSE DocumentBodies

Respond2xx ==
    \E latency \in Latencies, body \in BodiesFor(fp.caller) :
        Iteration("2xx", latency, on_success(fp.attempt), body)

Respond429 ==
    \E latency \in Latencies, h \in RetryAfterHeaders :
        Iteration("429", latency, on_429(h, fp.attempt), h)

Respond5xx ==
    \E latency \in Latencies : Iteration("5xx", latency, on_5xx(fp.attempt), "")

Respond4xx ==
    \E latency \in Latencies : Iteration("4xx", latency, on_4xx(fp.attempt), "")

RaiseTimeout ==
    \E latency \in Latencies : Iteration("timeout", latency, on_timeout(fp.attempt), "")

RaiseConnectionError ==
    \E latency \in Latencies :
        Iteration("connection_error", latency, on_connection_error(fp.attempt), "")

RaiseRequestException ==
    \E latency \in Latencies :
        Iteration("request_exception", latency, on_request_exception(fp.attempt), "")

FetchPageSteps ==
    \/ Respond2xx
    \/ Respond429
    \/ Respond5xx
    \/ Respond4xx
    \/ RaiseTimeout
    \/ RaiseConnectionError
    \/ RaiseRequestException

----------------------------------------------------------------------------
(* Fetch engine: the callers of fetch_page *)

\* the items of a page of the upstream search that has total pages
PageItems(page, total) ==
    IF page = total THEN <<10 * page + 1>> ELSE <<10 * page + 1, 10 * page + 2>>

\* meta.get('totalPages', 1)
total_pages_of(body, reported) == IF body = "no_meta" THEN 1 ELSE reported

\* the loop goes on until a page number lies beyond the reported total
last_page_beyond(current_page, total_pages) == current_page > total_pages

\* "if current_page >= total_pages: break"
last_page(current_page, total_pages) == current_page >= total_pages

\* RegulationsGovScraper.get_new_comment_periods up to its loop
GetNewCommentPeriods ==
    /\ pg.pc = "idle"
    /\ fp.pc = "none"
    /\ \E total \in 1..MaxPages :
          pg' = [NoPagination EXCEPT !.pc = "loop", !.page = 1, !.totalPages = total]
    /\ UNCHANGED <<storeSide, enrichment, scrapeRun, upserts, clock, scraper, fp, wire, nRequests>>

\* the loop calls fetch_page for the current page
PageFetch ==
    /\ pg.pc = "loop"
    /\ FetchPageEnter("RegulationsGovScraper", scraper["RegulationsGovScraper"],
                      "pagination")
    /\ pg' = [pg EXCEPT !.pc = "wait"]
    /\ UNCHANGED <<storeSide, enrichment, scrapeRun, upserts, wire>>

\* the loop body after fetch_page has returned
PageReceived ==
    /\ pg.pc = "wait"
    /\ fp.pc = "returned"
    /\ fp' = NoFetch
    /\ IF fp.result = "None" \/ fp.body \in {"invalid_json", "no_data"}
       THEN pg' = [pg EXCEPT !.pc = "done", !.failedPage = pg.page]
       ELSE LET documents == PageItems(pg.page, pg.totalPages)
                total_pages == total_pages_of(fp.body, pg.totalPages)
            IN  pg' = [pg EXCEPT
                         !.all_documents = @ \o documents,
                         !.served = Append(@, pg.page),
                         !.reported = Append(@, total_pages),
                         !.pc = IF last_page(pg.page, total_pages) THEN "done" ELSE "loop",
                         !.page = IF last_page(pg.page, total_pages) THEN @ ELSE @ + 1]
    /\ UNCHANGED <<storeSide, enrichment, scrapeRun, upserts, clock, scraper, wire, nRequests>>

\* an exception left fetch_page: nothing in get_new_comment_periods catches it
PageRaised ==
    /\ pg.pc = "wait"
    /\ fp.pc = "raised"
    /\ fp' = NoFetch
    /\ pg' = [pg EXCEPT !.pc = "raised", !.failedPage = pg.page]
    /\ UNCHANGED <<storeSide, enrichment, scrapeRun, upserts, clock, scraper, wire, nRequests>>

\* get_document_details: one request through the scraper of the run
DetailsFetch ==
    /\ pg.pc = "done"
    /\ pg.all_documents /= <<>>
    /\ FetchPageEnter("RegulationsGovScraper", scraper["RegulationsGovScraper"], "details")
    /\ UNCHANGED <<storeSide, enrichment, scrapeRun, upserts, wire, pg>>

\* enrich_with_federal_register: a new FederalRegisterScraper, then
\* get_document: one request through it
FederalRegisterFetch ==
    /\ pg.pc = "done"
    /\ pg.all_documents /= <<>>
    /\ FetchPageEnter("FederalRegisterScraper", NewScraper("FederalRegisterScraper"),
                      "federal_register")
    /\ wire' = [wire EXCEPT !["FederalRegisterScraper"] = <<>>]
    /\ UNCHANGED <<storeSide, enrichment, scrapeRun, upserts, pg>>

\* get_document_details or get_document after fetch_page; an exception that
\* left fetch_page is caught by the loop of scrape
DocumentReceived ==
    /\ fp.caller \in {"details", "federal_register"}
    /\ fp.pc \in {"returned", "raised"}
    /\ fp' = NoFetch
    /\ UNCHANGED <<storeSide, enrichment, scrapeRun, upserts, clock, scraper, wire, pg, nRequests>>

----------------------------------------------------------------------------
(* Enrichment: FederalRegisterScraper.enrich_period *)

\* url.rstrip('/').split('/')[-1]
LastPathPart(url) ==
    CASE url = "/" -> ""
      [] url = "https://www.federalregister.gov/documents/2026-00783" -> "2026-00783"
      [] url = "https://www.federalregister.gov/documents/2026-00783/" -> "2026-00783"
      [] OTHER -> url

\* the document number enrich_period extracts, None (NULL) when there is no URL
fr_doc_num(period) ==
    IF TruthyText(GetText(period, "federal_register_url"))
    THEN LastPathPart(period["federal_register_url"])
    ELSE NULL

\* the order of sorted() on the tokens in use
TokenRank(t) ==
    CASE t = "Air quality" -> 1 [] t = "Banks" -> 2 [] t = "Banks, banking" -> 3
      [] t = "RIN: 2060-AV16" -> 4 [] t = "air" -> 5 [] t = "banking" -> 6
      [] t = "water" -> 7 [] OTHER -> 0

\* sorted(set(tokens)): each token once, in sorted order
RECURSIVE SortedTokens(_)
SortedTokens(S) ==
    IF S = {} THEN <<>>
    ELSE LET least == CHOOSE t \in S : \A u \in S : TokenRank(t) <= TokenRank(u)
         IN  <<least>> \o SortedTokens(S \ {least})

Range(list) == {list[i] : i \in 1..Len(list)}

\* token.split(', '): the parts of a text that holds the separator
Parts(token) == IF token = "Banks, banking" THEN <<"Banks", "banking">> ELSE <<token>>

\* keywords.split(', ') of the text ', '.join(tokens)
RECURSIVE split(_)
split(tokens) ==
    IF tokens = <<>> THEN <<>> ELSE Parts(Head(tokens)) \o split(Tail(tokens))

\* the abstract of the secondary source takes the place of any abstract
merge_abstract_overwrite(period, fr_doc, enhanced) ==
    IF TruthyText(GetText(fr_doc, "abstract"))
    THEN Put(enhanced, "abstract", fr_doc["abstract"])
    ELSE enhanced

\* "Use better abstract if available and current one is empty"
merge_abstract(period, fr_doc, enhanced) ==
    IF TruthyText(GetText(fr_doc, "abstract")) /\ ~TruthyText(GetText(period, "abstract"))
    THEN Put(enhanced, "abstract", fr_doc["abstract"])
    ELSE enhanced

\* the topics of the secondary source take the place of the keywords
merge_topics_overwrite(period, fr_doc, enhanced) ==
    IF GetList(fr_doc, "topics") /= <<>>
    THEN Put(enhanced, "keywords", SortedTokens(Range(GetList(fr_doc, "topics"))))
    ELSE enhanced

\* "Add topics if available": keywords become the sorted union
merge_topics(period, fr_doc, enhanced) ==
    IF GetList(fr_doc, "topics") /= <<>>
    THEN LET existing_topics == split(GetList(period, "keywords"))
             fr_topics == GetList(fr_doc, "topics")
             all_topics == Range(existing_topics \o fr_topics)
         IN  Put(enhanced, "keywords", SortedTokens(all_topics))
    ELSE enhanced

\* the action of the secondary source takes the place of any document type
merge_action_overwrite(period, fr_doc, enhanced) ==
    IF TruthyText(GetText(fr_doc, "action"))
    THEN Put(enhanced, "document_type", fr_doc["action"])
    ELSE enhanced

\* "Add action description if available"
merge_action(period, fr_doc, enhanced) ==
    IF TruthyText(GetText(fr_doc, "action")) /\ ~TruthyText(GetText(period, "document_type"))
    THEN Put(enhanced, "document_type", fr_doc["action"])
    ELSE enhanced

\* enrich_period(period), got being what get_document returns when called
enrich_period(period, got) ==
    IF ~TruthyText(fr_doc_num(period)) THEN period
    ELSE IF ~got.found \/ DOMAIN got.doc = {} THEN period
    ELSE merge_action(period, got.doc,
            merge_topics(period, got.doc,
               merge_abstract(period, got.doc, period)))

\* the assignments go to the dict the caller passed
period_after_aliased(period, got) == enrich_period(period, got)

\* the dict the caller passed, after the call: the assignments go to
\* enhanced, which is period.copy()
period_after(period, got) == period

\* enrich_period is called: without a document number it returns the period
\* at once, else it asks get_document for the document
EnrichPeriodCall ==
    /\ enrichment.pc \in {"none", "returned", "again"}
    /\ \E period \in Periods :
          enrichment' = [NoEnrichment EXCEPT
                           !.period = period,
                           !.argument = period,
                           !.enhanced = IF TruthyText(fr_doc_num(period)) THEN EmptyDict
                                        ELSE enrich_period(period, NoEnrichment.fr_doc),
                           !.pc = IF TruthyText(fr_doc_num(period)) THEN "get_document"
                                  ELSE "returned"]
    /\ UNCHANGED <<storeSide, scrapeRun, upserts, clock, scraper, fp, wire, pg, nRequests>>

\* get_document has returned and enrich_period returns the enriched period
EnrichPeriodReturn ==
    /\ enrichment.pc = "get_document"
    /\ \E got \in GetDocumentResults :
          enrichment' = [enrichment EXCEPT
                           !.fr_doc = got,
                           !.argument = period_after(enrichment.period, got),
                           !.enhanced = enrich_period(enrichment.period, got),
                           !.pc = "returned"]
    /\ UNCHANGED <<storeSide, scrapeRun, upserts, clock, scraper, fp, wire, pg, nRequests>>

\* enrich_period is called on the period it has returned, get_document
\* returning what it returned before
EnrichPeriodAgain ==
    /\ enrichment.pc = "returned"
    /\ enrichment' = [enrichment EXCEPT
                        !.again = enrich_period(enrichment.enhanced, enrichment.fr_doc),
                        !.pc = "again"]
    /\ UNCHANGED <<storeSide, scrapeRun, upserts, clock, scraper, fp, wire, pg, nRequests>>

----------------------------------------------------------------------------
(* Ingestion run: RegulationsGovScraper.scrape *)

\* ', '.join(list), and the text f"RIN: {rin}" as its one token
RECURSIVE Join(_)
Join(list) ==
    IF list = <<>> THEN ""
    ELSE IF Len(list) = 1 THEN list[1]
    ELSE list[1] \o ", " \o Join(Tail(list))

\* parse_document(doc_data)
parse_document(doc_data) ==
    LET attrs == doc_data.attributes
        doc_id == doc_data.id
        parsed == [document_id |-> doc_id, docket_id |-> doc_id, title |-> "t1",
                   agency_id |-> "EPA", agency_name |-> "Agency",
                   document_type |-> "", posted_date |-> attrs.postedDate,
                   comment_start_date |-> NULL,
                   comment_end_date |-> attrs.commentEndDate, abstract |-> "",
                   regulations_url |-> "url", details_url |-> "details",
                   source_url |-> "source"]
    IN  IF TruthyText(attrs.frDocNum)
        THEN Put(parsed, "federal_register_url",
                 "https://www.federalregister.gov/documents/" \o attrs.frDocNum)
        ELSE parsed

\* "Use the better summary from details if available"
details_summary(parsed, detail_attrs) ==
    IF TruthyText(GetText(detail_attrs, "summary"))
    THEN Put(parsed, "abstract", detail_attrs["summary"])
    ELSE parsed

\* "Get Federal Register doc number if not already set"
details_fr_doc_num(parsed, detail_attrs) ==
    IF TruthyText(GetText(detail_attrs, "frDocNum"))
         /\ ~TruthyText(GetText(parsed, "federal_register_url"))
    THEN Put(parsed, "federal_register_url",
             "https://www.federalregister.gov/documents/" \o detail_attrs["frDocNum"])
    ELSE parsed

\* "Add any additional useful fields"
details_rin(parsed, detail_attrs) ==
    IF TruthyText(GetText(detail_attrs, "rin"))
    THEN Put(parsed, "keywords", <<"RIN: " \o detail_attrs["rin"]>>)
    ELSE parsed

\* the body of "if details:"
apply_details(parsed, detail_attrs) ==
    details_rin(details_fr_doc_num(details_summary(parsed, detail_attrs), detail_attrs),
                detail_attrs)

\* the call of upsert_comment_period with parsed as its keyword arguments:
\* the eight named arguments and the kwargs
draft_of(parsed) ==
    LET extra == DOMAIN parsed \ base_fields
        none == {k \in extra : k /= "keywords" /\ parsed[k] = NULL}
    IN  [document_id |-> parsed["document_id"], docket_id |-> parsed["docket_id"],
         title |-> parsed["title"], agency_id |-> parsed["agency_id"],
         agency_name |-> parsed["agency_name"], posted_date |-> parsed["posted_date"],
         comment_end_date |-> parsed["comment_end_date"],
         regulations_url |-> parsed["regulations_url"],
         kwargs |-> [k \in extra \ none |->
                        IF k = "keywords" THEN Join(parsed[k]) ELSE parsed[k]],
         none_kwargs |-> none]

\* every run saves, dry or not
saves_always(dry_run) == TRUE

\* "if not dry_run:"
saves(dry_run) == ~dry_run

\* the run goes on with the document after the current one, whose processing
\* ended with the given outcome; after the last one it logs the summary
Advance(r, outcome) ==
    LET last_one == r.i >= Len(r.documents)
    IN  [r EXCEPT !.i = r.i + 1,
                  !.pc = IF last_one THEN "done" ELSE "document",
                  !.summary = last_one,
                  !.parsed = EmptyDict,
                  !.trace = NoTrace,
                  !.history = Append(r.history, [r.trace EXCEPT !.outcome = outcome])]

\* "except Exception as e": the error is counted
CountError(r) == [r EXCEPT !.stats.errors = r.stats.errors + 1]

\* scrape() up to its loop: get_new_comment_periods, stats['fetched'], and
\* the early return when nothing was found
ScrapeStart(dry_run, enrich) ==
    /\ scrapeRun.pc = "idle"
    /\ Quiet
    /\ \E documents \in DocumentLists, outcome \in PaginationOutcomes,
          store_available \in BOOLEAN :
          scrapeRun' =
            [NoScrape EXCEPT
               !.dry_run = dry_run, !.enrich = enrich, !.pagination = outcome,
               !.store_available = store_available,
               !.documents = IF outcome = "raised" THEN <<>> ELSE documents,
               !.stats.fetched = IF outcome = "raised" THEN 0 ELSE Len(documents),
               !.i = 1,
               !.pc = IF outcome = "raised" THEN "aborted"
                      ELSE IF documents = <<>> THEN "done" ELSE "document",
               !.summary = (outcome /= "raised" /\ documents = <<>>),
               !.before = [comment_periods |-> comment_periods, bot_posts |-> bot_posts]]
    /\ UNCHANGED <<storeSide, upserts, clock, scraper, fp, wire, pg, nRequests, enrichment>>

\* the loop body up to the details: an item that is no dict raises in the
\* try block and again in the handler; a document closed for comment is
\* skipped; any other is parsed
ScrapeDocument ==
    /\ scrapeRun.pc = "document"
    /\ LET doc_data == scrapeRun.documents[scrapeRun.i]
           r == [scrapeRun EXCEPT !.trace.index = scrapeRun.i]
       IN  scrapeRun' =
             IF doc_data.kind /= "dict"
             THEN [CountError(r) EXCEPT !.pc = "aborted"]
             ELSE IF ~doc_data.attributes.openForComment
             THEN Advance(r, "skipped")
             ELSE LET parsed == parse_document(doc_data)
                  IN  IF r.enrich
                      THEN [r EXCEPT !.parsed = parsed, !.pc = "details"]
                      ELSE [r EXCEPT !.parsed = parsed, !.pc = "save",
                                     !.trace.primary = parsed, !.trace.merged = parsed,
                                     !.stats.parsed = r.stats.parsed + 1]
    /\ UNCHANGED <<storeSide, upserts, clock, scraper, fp, wire, pg, nRequests, enrichment>>

\* get_document_details and the use of what it returns
ScrapeDetails ==
    /\ scrapeRun.pc = "details"
    /\ \E result \in DetailsResults :
          LET r == [scrapeRun EXCEPT
                      !.requests = Append(@, <<"details", scrapeRun.i>>),
                      !.trace.details = result.exit]
              parsed == IF result.exit = "details"
                        THEN apply_details(r.parsed, result.attrs)
                        ELSE r.parsed
          IN  scrapeRun' =
                IF result.exit = "ValueError"
                THEN Advance(CountError(r), "error")
                ELSE IF TruthyText(GetText(parsed, "federal_register_url"))
                THEN [r EXCEPT !.parsed = parsed, !.trace.primary = parsed, !.pc = "enrich"]
                ELSE [r EXCEPT !.parsed = parsed, !.pc = "save",
                               !.trace.primary = parsed, !.trace.merged = parsed,
                               !.stats.parsed = r.stats.parsed + 1]
    /\ UNCHANGED <<storeSide, upserts, clock, scraper, fp, wire, pg, nRequests, enrichment>>

\* enrich_with_federal_register(parsed)
ScrapeEnrich ==
    /\ scrapeRun.pc = "enrich"
    /\ LET num == fr_doc_num(scrapeRun.parsed)
       IN  IF ~TruthyText(num)
           THEN scrapeRun' = [scrapeRun EXCEPT
                                !.trace.secondary = "no_request",
                                !.trace.merged = scrapeRun.parsed,
                                !.stats.parsed = scrapeRun.stats.parsed + 1,
                                !.pc = "save"]
           ELSE \E result \in FederalRegisterResults :
                  LET r == [scrapeRun EXCEPT
                              !.requests = Append(@, <<"federal_register", scrapeRun.i>>),
                              !.trace.secondary = result.exit]
                      enhanced == enrich_period(r.parsed, result.got)
                  IN  scrapeRun' =
                        IF result.exit = "ValueError"
                        THEN Advance(CountError(r), "error")
                        ELSE [r EXCEPT !.parsed = enhanced, !.trace.merged = enhanced,
                                       !.stats.parsed = r.stats.parsed + 1,
                                       !.pc = "save"]
    /\ UNCHANGED <<storeSide, upserts, clock, scraper, fp, wire, pg, nRequests, enrichment>>

\* the documents an earlier run has stored
StoredDrafts ==
    { MkDraft("EPA-1", "t1", 0, 7, [abstract |-> "a1", document_type |-> "Rule"], {}) }

\* upsert_comment_period of an earlier run
EarlierIngestion(d) ==
    /\ scrapeRun.pc = "idle"
    /\ comment_periods = {}
    /\ Upsert(d)

\* "Save to database (unless dry run)": a dry run goes on to the next document
ScrapeDryRun ==
    /\ scrapeRun.pc = "save"
    /\ ~saves(scrapeRun.dry_run)
    /\ scrapeRun' = Advance(scrapeRun, "dry_run")
    /\ UNCHANGED <<storeSide, upserts, clock, scraper, fp, wire, pg, nRequests, enrichment>>

\* upsert_comment_period returns and stats['new'] is counted
ScrapeSave ==
    /\ scrapeRun.pc = "save"
    /\ saves(scrapeRun.dry_run)
    /\ ~ConnectFails(scrapeRun)
    /\ LET d == draft_of(scrapeRun.parsed)
       IN  /\ ~UpsertFails(d)
           /\ comment_periods' = UpsertTable(comment_periods, d, sqlite_sequence, utcToday)
           /\ sqlite_sequence' = sqlite_sequence + 1
           /\ LET id == period_id(comment_periods, d, sqlite_sequence, comment_periods')
              IN  /\ last' = Event(IF Conflicting(comment_periods, d) = {}
                                   THEN "upsert_insert" ELSE "upsert_update", id, d, "", NULL)
                  /\ returned' = returned \cup {<<d.document_id, id>>}
    /\ scrapeRun' = Advance([scrapeRun EXCEPT !.stats.new = scrapeRun.stats.new + 1], "saved")
    /\ UNCHANGED <<bot_posts, clockVars, missed, dbLocked, mp, txn, run, published,
                   duplicated, failed, dispatched, nOps,
                   upserts, clock, scraper, fp, wire, pg, nRequests, enrichment>>

\* upsert_comment_period raises (in get_connection, or in cursor.execute) and
\* the handler counts the error
ScrapeSaveRaises ==
    /\ scrapeRun.pc = "save"
    /\ saves(scrapeRun.dry_run)
    /\ LET d == draft_of(scrapeRun.parsed)
       IN  /\ ConnectFails(scrapeRun) \/ UpsertFails(d)
           /\ last' = Event("upsert_raise", 0, d, "", NULL)
    /\ dbLocked' \in IF dbLocked \/ ConnectFails(scrapeRun) THEN {dbLocked} ELSE {TRUE, FALSE}
    /\ scrapeRun' = Advance(CountError(scrapeRun), "upsert_error")
    /\ UNCHANGED <<storeVars, clockVars, missed, mp, txn, run, historyVars, nOps,
                   upserts, clock, scraper, fp, wire, pg, nRequests, enrichment>>

----------------------------------------------------------------------------
(* upsert_comment_period called by concurrent writers, statement by statement *)

\* a later draft of a stored document whose comment period has been extended
ExtendedDrafts == { MkDraft("EPA-1", "t2", 0, 8, NoKwargs, {}) }

\* the drafts two writers hold of one document
ConcurrentDrafts == {d \in Drafts \cup ExtendedDrafts : d.document_id = "EPA-1"}

\* a store without write lock
Busy_never(calls, w) == FALSE

\* SQLite grants the write lock to one connection at a time: the statement
\* of another call has written and its transaction is not committed
Busy(calls, w) == \E v \in Writers \ {w} : calls[v].pc = "executed"

\* conn = get_connection()
UpsertConnect(w, d) ==
    /\ upserts.calls[w].pc = "idle"
    /\ Quiet
    /\ ~dbLocked
    /\ upserts' = [upserts EXCEPT
                     !.calls[w] = [NoUpsert EXCEPT
                        !.pc = "connected", !.draft = d,
                        !.concurrent = \E v \in Writers \ {w} :
                                          upserts.calls[v].pc \in {"connected", "executed"}]]
    /\ UNCHANGED <<storeSide, fetchSide>>

\* cursor.execute(sql, values): the statement takes the write lock and runs
\* on the committed table; a draft that breaks the CHECK raises
UpsertExecute(w) ==
    LET c == upserts.calls[w]
    IN  /\ c.pc = "connected"
        /\ ~Busy(upserts.calls, w)
        /\ upserts' = [upserts EXCEPT !.calls[w] =
              IF CheckConstraint(UpsertRow(comment_periods, c.draft, sqlite_sequence, utcToday))
              THEN [c EXCEPT
                      !.pc = "executed",
                      !.pending = UpsertTable(comment_periods, c.draft, sqlite_sequence,
                                              utcToday),
                      !.lastrowid = lastrowid(comment_periods, c.draft, sqlite_sequence)]
              ELSE [c EXCEPT !.pc = "raised"]]
        /\ UNCHANGED <<storeSide, fetchSide>>

\* cursor.execute raises OperationalError: the lock was held past the timeout
UpsertBusy(w) ==
    /\ upserts.calls[w].pc = "connected"
    /\ Busy(upserts.calls, w)
    /\ upserts' = [upserts EXCEPT !.calls[w].pc = "raised"]
    /\ UNCHANGED <<storeSide, fetchSide>>

\* conn.commit()
UpsertCommit(w) ==
    /\ upserts.calls[w].pc = "executed"
    /\ comment_periods' = upserts.calls[w].pending
    /\ sqlite_sequence' = sqlite_sequence + 1
    /\ upserts' = [upserts EXCEPT !.calls[w].pc = "committed",
                                  !.order = Append(upserts.order, w)]
    /\ UNCHANGED <<bot_posts, clockVars, missed, dbLocked, mp, txn, run, historyVars,
                   last, nOps, fetchSide>>

\* the id is read back, conn.close(), return period_id
UpsertReturn(w) ==
    LET c == upserts.calls[w]
        id == IF c.lastrowid > 0 THEN c.lastrowid
              ELSE (CHOOSE r \in comment_periods :
                        r["document_id"] = c.draft.document_id)["id"]
    IN  /\ c.pc = "committed"
        /\ upserts' = [upserts EXCEPT !.calls[w].pc = "returned",
                                      !.calls[w].period_id = id]
        /\ returned' = returned \cup {<<c.draft.document_id, id>>}
        /\ UNCHANGED <<storeVars, clockVars, missed, dbLocked, mp, txn, run, published,
                       duplicated, failed, dispatched, last, nOps, fetchSide>>

----------------------------------------------------------------------------
(* Specifications *)

\* the arguments the queries are called with
QueryDays == {0, 1}

QueryLimits == {0, 1}

ClosingDays == {7, 3, 1, 2}

QueryDocumentIds == {"EPA-1", "FDA-2", "DOT-3"}

QueryOps == {"get_new_comment_periods", "get_closing_soon", "get_closing_soon_raises",
             "get_all_open_periods", "get_period_by_document_id"}

\* a query has returned `result`
Selected(op, result) ==
    /\ comment_periods' = select_effect(comment_periods, result)
    /\ last' = Event(op, Len(result), NoDraft, "", NULL)
    /\ nOps' = nOps + 1
    /\ UNCHANGED <<bot_posts, sqlite_sequence, clockVars, missed, fetchVars, dbLocked, mp, txn,
                   run, historyVars>>

\* get_new_comment_periods(days, limit)
GetNewCommentPeriodsCall(days, limit) ==
    /\ Quiet
    /\ nOps < MaxOps
    /\ \E result \in get_new_comment_periods(comment_periods, days, limit, today, utcToday) :
          Selected("get_new_comment_periods", result)

\* get_closing_soon(days), days one of 7, 3, 1
GetClosingSoonCall(days) ==
    /\ Quiet
    /\ nOps < MaxOps
    /\ days \in {7, 3, 1}
    /\ \E result \in get_closing_soon(comment_periods, days, today) :
          Selected("get_closing_soon", result)

\* get_closing_soon(days) with any other number: raise ValueError("days must be
\* 7, 3, or 1"), after get_connection() and before any statement
GetClosingSoonRaises(days) ==
    /\ Quiet
    /\ nOps < MaxOps
    /\ days \notin {7, 3, 1}
    /\ last' = Event("get_closing_soon_raises", days, NoDraft, "", NULL)
    /\ nOps' = nOps + 1
    /\ UNCHANGED <<storeVars, clockVars, missed, fetchVars, dbLocked, mp, txn, run, historyVars>>

\* get_all_open_periods()
GetAllOpenPeriodsCall ==
    /\ Quiet
    /\ nOps < MaxOps
    /\ \E result \in get_all_open_periods(comment_periods, utcToday) :
          Selected("get_all_open_periods", result)

\* get_period_by_document_id(document_id)
GetPeriodByDocumentIdCall(document_id) ==
    /\ Quiet
    /\ nOps < MaxOps
    /\ \E result \in get_period_by_document_id(comment_periods, document_id) :
          Selected("get_period_by_document_id", result)

\* the arguments of the direct mark_posted calls
ApiPeriodIds == {r["id"] : r \in comment_periods} \cup {sqlite_sequence + 1}

ApiPostTypes == PostTypes \cup {"reminder_7d"}

ApiPostUris == {NULL, ""} \cup Receipts

Ingestion ==
    \/ \E d \in Drafts : Upsert(d)
    \/ \E d \in Drafts : UpsertRaises(d)
    \/ ReleaseLock

MarkPostedSteps ==
    \/ MarkPostedUpdate
    \/ MarkPostedInsert
    \/ MarkPostedCommit

\* the store used through its functions alone
NextStore ==
    \/ Ingestion
    \/ \E id \in ApiPeriodIds, t \in ApiPostTypes, u \in ApiPostUris :
          MarkPostedCall(id, t, u)
    \/ \E id \in ApiPeriodIds, t \in ApiPostTypes, u \in ApiPostUris :
          MarkPostedInvalid(id, t, u)
    \/ MarkPostedSteps
    \/ MarkPostedBusy
    \/ TickUtc

SpecStore == Init /\ [][NextStore]_vars

\* the store read through its queries between writes
NextQuery ==
    \/ \E d \in Drafts : Upsert(d)
    \/ \E id \in ApiPeriodIds, t \in PostTypes, u \in ApiPostUris : MarkPostedCall(id, t, u)
    \/ MarkPostedSteps
    \/ \E days \in QueryDays, limit \in QueryLimits : GetNewCommentPeriodsCall(days, limit)
    \/ \E days \in ClosingDays : GetClosingSoonCall(days)
    \/ \E days \in ClosingDays : GetClosingSoonRaises(days)
    \/ GetAllOpenPeriodsCall
    \/ \E document_id \in QueryDocumentIds : GetPeriodByDocumentIdCall(document_id)

SpecQuery == Init /\ [][NextQuery]_vars

\* ingestion runs and notification runs, one at a time
Next ==
    \/ Ingestion
    \/ \E m \in Milestones : NotifierStart(m)
    \/ \E receipt \in Receipts : PublishSucceeds(receipt)
    \/ PublishFails
    \/ MarkPostedSteps
    \/ TickLocal
    \/ TickUtc

Spec == Init /\ [][Next]_vars

\* the same, with the running process killed at any point
NextCrash == Next \/ Kill

SpecCrash == Init /\ [][NextCrash]_vars

\* ingestion and notification runs, with re-ingestion of extended deadlines
NextExtend ==
    \/ Next
    \/ \E d \in ExtendedDrafts : Upsert(d)

SpecExtend == Init /\ [][NextExtend]_vars


\* one ingestion run seen from the network: the pagination pass, then detail
\* and enrichment requests
NextFetch ==
    \/ GetNewCommentPeriods
    \/ PageFetch
    \/ PageReceived
    \/ PageRaised
    \/ DetailsFetch
    \/ FederalRegisterFetch
    \/ DocumentReceived
    \/ FetchPageSteps

SpecFetch == Init /\ [][NextFetch]_vars

\* enrichment of parsed periods with what the secondary source returns
NextMerge == EnrichPeriodCall \/ EnrichPeriodReturn \/ EnrichPeriodAgain

SpecMerge == Init /\ [][NextMerge]_vars

\* one ingestion run, dry or not, with or without enrichment, on a store that
\* is empty or holds a document of an earlier run
NextScrape ==
    \/ \E d \in StoredDrafts : EarlierIngestion(d)
    \/ \E dry_run \in BOOLEAN, enrich \in BOOLEAN : ScrapeStart(dry_run, enrich)
    \/ ScrapeDocument
    \/ ScrapeDetails
    \/ ScrapeEnrich
    \/ ScrapeDryRun
    \/ ScrapeSave
    \/ ScrapeSaveRaises
    \/ ReleaseLock

SpecScrape == Init /\ [][NextScrape]_vars

\* two writers, each calling upsert once on the same document
NextConcurrent ==
    \/ \E w \in Writers, d \in ConcurrentDrafts : UpsertConnect(w, d)
    \/ \E w \in Writers : UpsertExecute(w)
    \/ \E w \in Writers : UpsertBusy(w)
    \/ \E w \in Writers : UpsertCommit(w)
    \/ \E w \in Writers : UpsertReturn(w)

SpecConcurrent == Init /\ [][NextConcurrent]_vars

----------------------------------------------------------------------------
(* Vocabulary of the properties *)

\* the flag a milestone stands for, as the data model names it
FlagOfMilestone(m) ==
    IF m = "new" THEN "posted_new"
    ELSE IF m = "7day" THEN "posted_7day_reminder"
    ELSE IF m = "3day" THEN "posted_3day_reminder"
    ELSE "posted_last_day"

RowsWithId(table, id) == {r \in table : r["id"] = id}

RowsOfDocument(table, doc) == {r \in table : r["document_id"] = doc}

\* the dispatch records of a period and a milestone
RecordsOf(posts, id, m) ==
    {i \in 1..Len(posts) : posts[i].comment_period_id = id /\ posts[i].post_type = m}

\* a draft carries a value (not None) for an optional field
DraftHas(d, c) == c \in DOMAIN d.kwargs /\ c \notin d.none_kwargs

\* the step is an upsert call that returned
UpsertReturned == sqlite_sequence' /= sqlite_sequence

\* the step is the commit that ends a mark_posted call
MarkPostedReturned == mp.pc = "commit" /\ mp'.pc = "none" /\ last'.op = "mark_posted"

----------------------------------------------------------------------------
(* C1: with notification runs and ingestion runs one at a time, no (period,
   milestone) pair is published twice; a pair a run has dispatched has its flag
   set and exactly one dispatch record; a pair published and not yet recorded
   is the one whose mark_posted is in progress; and a run attempts no pair that
   was published before, so a repeated run calls the publisher for none of
   them. *)
C1_AtMostOncePerMilestone ==
    /\ duplicated = {}
    /\ \A p \in dispatched :
          /\ \E r \in RowsWithId(comment_periods, p[1]) : r[FlagOfMilestone(p[2])] = 1
          /\ Cardinality(RecordsOf(bot_posts, p[1], p[2])) = 1
    /\ \A p \in published \ dispatched :
          run.pc = "mark" /\ p = <<Head(run.todo), run.milestone>>
    /\ run.pc = "publish" =>
          \A i \in 1..Len(run.todo) : <<run.todo[i], run.milestone>> \notin published

\* a run for 'new' has dispatched a period, and the run for 'new' right after
\* it has finished without a publisher call although the dates still match
C1_Witness ==
    /\ run.pc = "idle" /\ run.milestone = "new" /\ run.calls = 0
    /\ last.op = "mark_posted" /\ last.post_type = "new"
    /\ <<last.period_id, "new">> \in dispatched
    /\ \E r \in RowsWithId(comment_periods, last.period_id) :
          /\ r["posted_new"] = 1
          /\ r["posted_date"] >= today - DefaultLookback
          /\ r["comment_end_date"] >= utcToday
    /\ Len(bot_posts) = 1

----------------------------------------------------------------------------
(* C2: the store holds exactly one row for each document_id that an upsert
   has returned for, and all the upsert calls of one document_id return the
   same id, the id of that row. *)
C2_OneRowPerDocument ==
    /\ \A x \in returned :
          /\ Cardinality(RowsOfDocument(comment_periods, x[1])) = 1
          /\ \A r \in RowsOfDocument(comment_periods, x[1]) : r["id"] = x[2]
    /\ \A x, y \in returned : x[1] = y[1] => x[2] = y[2]
    /\ \A r \in comment_periods : \E x \in returned : x[1] = r["document_id"]

\* an upsert of a stored document has returned, with two documents stored
C2_Witness ==
    /\ last.op = "upsert_update"
    /\ Cardinality(comment_periods) = 2
    /\ last.period_id = 1
    /\ sqlite_sequence = 3

----------------------------------------------------------------------------
(* C3: an upsert call changes no flag of any row, whatever the draft holds;
   a call that raises changes nothing at all. *)
C3_UpsertKeepsFlags ==
    [][ /\ UpsertReturned =>
            \A r \in comment_periods :
                \E r2 \in comment_periods' :
                    /\ r2["document_id"] = r["document_id"]
                    /\ \A f \in PostedFlags : r2[f] = r[f]
        /\ (last'.op = "upsert_raise" /\ nOps' /= nOps) =>
            comment_periods' = comment_periods ]_vars

\* a draft that carries posted_new=0 has updated a row whose posted_new is set
C3_Witness ==
    /\ last.op = "upsert_update"
    /\ "posted_new" \in DOMAIN last.draft.kwargs
    /\ \E r \in RowsWithId(comment_periods, last.period_id) :
          r["posted_new"] = 1 /\ r["title"] = last.draft.title

----------------------------------------------------------------------------
(* C4: each flag of each period is a latch: it is 0 or 1, it is 0 on the row
   the first ingestion creates, and no step of upsert or mark_posted takes it
   from 1 back to 0. *)
C4_FlagsAreLatches ==
    [][ /\ \A r \in comment_periods :
              \E r2 \in comment_periods' :
                  /\ r2["document_id"] = r["document_id"]
                  /\ \A f \in PostedFlags : r[f] = 1 => r2[f] = 1
        /\ \A r2 \in comment_periods' :
              /\ \A f \in PostedFlags : r2[f] \in {0, 1}
              /\ RowsOfDocument(comment_periods, r2["document_id"]) = {} =>
                    \A f \in PostedFlags : r2[f] = 0 ]_vars

\* mark_posted has run twice for one flag of one row, and an upsert has
\* updated the row since
C4_Witness ==
    /\ last.op = "upsert_update"
    /\ \E i, j \in 1..Len(bot_posts) :
          /\ i < j
          /\ bot_posts[i].comment_period_id = last.period_id
          /\ bot_posts[j].comment_period_id = last.period_id
          /\ bot_posts[i].post_type = bot_posts[j].post_type
          /\ \E r \in RowsWithId(comment_periods, last.period_id) :
                r[FlagOfMilestone(bot_posts[i].post_type)] = 1

----------------------------------------------------------------------------
(* C5 *)

\* what a mark_posted call leaves of the rows: the flag of the milestone set
\* on the row of the id, everything else as it was
C5_RowsAfter ==
    /\ \A r \in comment_periods :
          \E r2 \in comment_periods' :
              /\ r2["id"] = r["id"]
              /\ \A c \in Columns :
                    IF r["id"] = mp.period_id /\ c = FlagOfMilestone(mp.post_type)
                    THEN r2[c] = 1
                    ELSE r2[c] = r[c]
    /\ Cardinality(comment_periods') = Cardinality(comment_periods)

\* C5 as stated: mark_posted sets exactly the flag of the milestone on the row
\* of the id and changes nothing else, and appends exactly one dispatch record
\* when a receipt is supplied (post_uri is not None), none when it is not.
C5_AsStated ==
    [][ MarkPostedReturned =>
          /\ C5_RowsAfter
          /\ bot_posts' = IF mp.post_uri /= NULL
                          THEN Append(bot_posts,
                                      [comment_period_id |-> mp.period_id,
                                       post_type |-> mp.post_type,
                                       post_uri |-> mp.post_uri])
                          ELSE bot_posts ]_vars

\* C5 amended: the same, with one dispatch record appended when the receipt is
\* a non-empty string, and none when it is None or the empty string.
C5_MarkPostedFrame ==
    [][ MarkPostedReturned =>
          /\ C5_RowsAfter
          /\ bot_posts' = IF mp.post_uri /= NULL /\ mp.post_uri /= ""
                          THEN Append(bot_posts,
                                      [comment_period_id |-> mp.period_id,
                                       post_type |-> mp.post_type,
                                       post_uri |-> mp.post_uri])
                          ELSE bot_posts ]_vars

\* mark_posted has returned for one of two stored rows with the empty string
\* as receipt: the flag is set and there is no dispatch record
C5_Witness ==
    /\ last.op = "mark_posted" /\ last.post_uri = ""
    /\ Cardinality(comment_periods) = 2
    /\ \E r \in RowsWithId(comment_periods, last.period_id) :
          r[FlagOfMilestone(last.post_type)] = 1
    /\ \E r \in comment_periods :
          r["id"] /= last.period_id /\ r[FlagOfMilestone(last.post_type)] = 0
    /\ bot_posts = <<>>

----------------------------------------------------------------------------
(* C6: while a mark_posted call with a receipt is in progress, and when it is
   killed, every change of the committed store shows the flag and the dispatch
   record together: no step makes one visible without the other. *)
C6_MarkPostedAtomic ==
    [][ ( /\ mp.pc /= "none"
          /\ mp.post_uri /= NULL /\ mp.post_uri /= ""
          /\ (comment_periods' /= comment_periods \/ bot_posts' /= bot_posts) ) =>
          /\ bot_posts' = Append(bot_posts,
                                 [comment_period_id |-> mp.period_id,
                                  post_type |-> mp.post_type,
                                  post_uri |-> mp.post_uri])
          /\ \A r2 \in RowsWithId(comment_periods', mp.period_id) :
                r2[FlagOfMilestone(mp.post_type)] = 1 ]_vars

\* a call with a receipt was killed after its UPDATE: the committed store
\* shows neither the flag nor a dispatch record
C6_Witness ==
    /\ last.op = "kill_in_transaction"
    /\ last.post_uri \in Receipts
    /\ \E r \in RowsWithId(comment_periods, last.period_id) :
          r[FlagOfMilestone(last.post_type)] = 0
    /\ bot_posts = <<>>
    /\ ~txn.open

----------------------------------------------------------------------------
(* Vocabulary of the notification properties *)

\* the ids a selection of the milestone can return on a given day
IdsEligibleOn(table, m, localDay, utcDay) ==
    {r["id"] : r \in {x \in table : \E l \in EligibleOn(table, m, localDay, utcDay) :
                                       \E i \in 1..Len(l) : l[i] = x}}

\* the dates of a row match the window of a milestone on a given day
InWindow(r, m, localDay, utcDay) ==
    IF m = "new"
    THEN r["posted_date"] >= localDay - 1 /\ r["comment_end_date"] >= utcDay
    ELSE r["comment_end_date"] = localDay + (IF m = "7day" THEN 7 ELSE IF m = "3day" THEN 3 ELSE 1)

\* the step is a publisher failure for the next period of the run
PublisherFailed == run.pc = "publish" /\ run'.calls = run.calls + 1 /\ mp' = mp

\* how far ahead a stored period can still meet a window
Ahead == 0..(7 + DefaultLookback)

----------------------------------------------------------------------------
(* C7: a publisher failure for a period changes no row and adds no dispatch
   record; the flag of the milestone is still 0 on that period, and the period
   is in the selection of the same milestone evaluated right after the
   failure whenever its dates match the window of that day. *)
C7_PublisherFailureSetsNothing ==
    [][ PublisherFailed =>
          /\ comment_periods' = comment_periods
          /\ bot_posts' = bot_posts
          /\ \A r \in RowsWithId(comment_periods', Head(run.todo)) :
                /\ r[FlagOfMilestone(run.milestone)] = 0
                /\ InWindow(r, run.milestone, today', utcToday') =>
                      r["id"] \in IdsEligibleOn(comment_periods', run.milestone,
                                                today', utcToday') ]_vars

\* the publisher has failed for a period closing in 7 days: no flag of it is
\* set, no dispatch record exists, and the 7-day selection still returns it
C7_Witness ==
    /\ last.op = "publish_fail" /\ last.post_type = "7day"
    /\ <<last.period_id, "7day">> \in failed \ published
    /\ \E r \in RowsWithId(comment_periods, last.period_id) :
          \A f \in PostedFlags : r[f] = 0
    /\ bot_posts = <<>>
    /\ last.period_id \in IdsEligibleOn(comment_periods, "7day", today, utcToday)

----------------------------------------------------------------------------
(* C8: an undelivered notification is never lost: a period for which the
   publisher has failed, with no store operation since, can still be selected
   for that milestone today or on a later day. *)
C8_NeverLost ==
    \A p \in failed \ dispatched :
        (last.op = "publish_fail" /\ last.period_id = p[1] /\ last.post_type = p[2]) =>
            \E d \in Ahead, e \in Ahead :
                p[1] \in IdsEligibleOn(comment_periods, p[2], today + d, utcToday + e)

----------------------------------------------------------------------------
(* C9 *)

\* what is durable: a dispatched pair has its flag and its one dispatch
\* record, and every row an upsert returned is stored under the returned id
C9_Durable ==
    /\ \A p \in dispatched :
          /\ \E r \in RowsWithId(comment_periods, p[1]) : r[FlagOfMilestone(p[2])] = 1
          /\ Cardinality(RecordsOf(bot_posts, p[1], p[2])) = 1
    /\ \A x \in returned :
          \E r \in RowsWithId(comment_periods, x[2]) : r["document_id"] = x[1]

\* C9 as stated: with kills at any point, no run publishes a notification that
\* an earlier, killed run had already published, and what was completed stays.
C9_AsStated == duplicated = {} /\ C9_Durable

\* C9 amended: with kills at any point, no run publishes a notification that
\* an earlier run had published and recorded with mark_posted (one published
\* but not yet recorded when the kill came is published again), and what was
\* completed stays.
C9_RerunAfterKill ==
    /\ run.pc = "publish" =>
          \A i \in 1..Len(run.todo) : <<run.todo[i], run.milestone>> \notin dispatched
    /\ run.pc = "mark" => <<Head(run.todo), run.milestone>> \notin dispatched
    /\ duplicated \subseteq published
    /\ C9_Durable

\* a run was killed between the publisher's success and mark_posted; the next
\* run has published the same notification again and recorded it
C9_Witness ==
    /\ duplicated /= {}
    /\ duplicated = dispatched
    /\ run.pc = "idle"
    /\ last.op = "mark_posted"
    /\ Len(bot_posts) = 1

----------------------------------------------------------------------------
(* C10: when upsert(d2) returns for a document that upsert(d1) has stored,
   the document has one row; it holds the value of d2 for each of the eight
   named fields and for each optional field d2 carries, and for each optional
   field d2 does not carry it holds what the row held before, the value of d1
   where d1 carried it. *)
C10_PartialDraftMerge ==
    [][ UpsertReturned =>
          LET d2 == last'.draft
              before == RowsOfDocument(comment_periods, d2.document_id)
              after == RowsOfDocument(comment_periods', d2.document_id)
          IN  /\ Cardinality(after) = 1
              /\ \A r2 \in after :
                    /\ \A c \in {"document_id", "docket_id", "title", "agency_id",
                                 "agency_name", "posted_date", "comment_end_date",
                                 "regulations_url"} : r2[c] = d2[c]
                    /\ \A c \in {"document_type", "comment_start_date", "abstract",
                                 "summary", "federal_register_url", "details_url",
                                 "topics", "keywords", "source_url"} :
                          IF DraftHas(d2, c)
                          THEN r2[c] = d2.kwargs[c]
                          ELSE /\ \A r \in before : r2[c] = r[c]
                               /\ ( /\ last.op \in {"upsert_insert", "upsert_update"}
                                    /\ last.draft.document_id = d2.document_id
                                    /\ DraftHas(last.draft, c) ) =>
                                      r2[c] = last.draft.kwargs[c] ]_vars

\* a partial draft (abstract=None, new title and topics) has updated the row
\* a full draft had stored: the abstract of the full draft is still there
C10_Witness ==
    /\ last.op = "upsert_update"
    /\ "abstract" \in last.draft.none_kwargs
    /\ \E r \in RowsWithId(comment_periods, last.period_id) :
          /\ r["abstract"] = "a1"
          /\ r["title"] = "t2"
          /\ r["topics"] = "tq"
          /\ r["document_type"] = "Rule"

----------------------------------------------------------------------------
(* Vocabulary of the selection properties *)

\* the rows that occur in some list of a set of result lists
RowsIn(lists) == UNION {{l[i] : i \in 1..Len(l)} : l \in lists}

----------------------------------------------------------------------------
(* C11: get_closing_soon(N) for N in {7, 3, 1} returns exactly the stored rows
   whose comment_end_date is today + N and whose flag of that milestone is 0:
   a row ending a day earlier or later is not returned, and neither is a row
   ending on that day whose flag is already 1. *)
C11_ClosingOnExactDay ==
    /\ RowsIn(get_closing_soon(comment_periods, 7, today)) =
          {r \in comment_periods : r["comment_end_date"] = today + 7
                                   /\ r["posted_7day_reminder"] = 0}
    /\ RowsIn(get_closing_soon(comment_periods, 3, today)) =
          {r \in comment_periods : r["comment_end_date"] = today + 3
                                   /\ r["posted_3day_reminder"] = 0}
    /\ RowsIn(get_closing_soon(comment_periods, 1, today)) =
          {r \in comment_periods : r["comment_end_date"] = today + 1
                                   /\ r["posted_last_day"] = 0}

\* a row ending on today + 7 has its 7-day flag set and is not returned for
\* 7 days, while a row ending on today + 1 with no flag is returned for 1 day
C11_Witness ==
    /\ \E r \in comment_periods :
          /\ r["comment_end_date"] = today + 7
          /\ r["posted_7day_reminder"] = 1
          /\ r \notin RowsIn(get_closing_soon(comment_periods, 7, today))
    /\ \E r \in comment_periods :
          /\ r["comment_end_date"] = today + 1
          /\ r["posted_last_day"] = 0
          /\ r \in RowsIn(get_closing_soon(comment_periods, 1, today))
          /\ r \notin RowsIn(get_closing_soon(comment_periods, 7, today))

----------------------------------------------------------------------------
(* C12 *)

\* the day on which the row met the window of the milestone has passed with
\* the flag still 0, and no run in progress holds the row for that milestone
Missed(r, m) ==
    /\ r["comment_end_date"] < today + MilestoneDays(m)
    /\ r[FlagOfMilestone(m)] = 0
    /\ ~( /\ run.pc /= "idle"
          /\ run.milestone = m
          /\ \E i \in 1..Len(run.todo) : run.todo[i] = r["id"] )

\* the row is not in the selection of the milestone, and its flag is 0
NotSelected(table, r, m, localDay) ==
    /\ r[FlagOfMilestone(m)] = 0
    /\ r \notin RowsIn(get_closing_soon(table, MilestoneDays(m), localDay))

\* C12 as stated: once the day of a reminder milestone has passed without a
\* run for a stored period, then whatever ingestion and notification runs
\* follow, the period is not selected for that milestone and its flag is 0.
C12_AsStated ==
    \A p \in missed :
        \A r \in RowsWithId(comment_periods, p[1]) :
            NotSelected(comment_periods, r, p[2], today)

\* C12 amended: the same for as long as no ingestion changes the
\* comment_end_date of the period: the day stays passed, the flag stays 0 and
\* the period is not selected for that milestone.
C12_MissedStaysMissed ==
    [][ \A r \in comment_periods : \A m \in ReminderMilestones :
          Missed(r, m) =>
             \A r2 \in RowsWithId(comment_periods', r["id"]) :
                r2["comment_end_date"] = r["comment_end_date"] =>
                   /\ NotSelected(comment_periods', r2, m, today')
                   /\ r2["comment_end_date"] < today' + MilestoneDays(m)
                   /\ ~( /\ run'.pc /= "idle"
                         /\ run'.milestone = m
                         /\ \E i \in 1..Len(run'.todo) : run'.todo[i] = r2["id"] ) ]_vars

\* the day a period was 7 days from its deadline passed without a run; a
\* 7-day run on the next day has found nothing and the flag is still 0
C12_Witness ==
    /\ today = 1
    /\ run = [NoRun EXCEPT !.milestone = "7day"]
    /\ published = {} /\ failed = {}
    /\ \E r \in comment_periods :
          /\ r["comment_end_date"] = 7
          /\ <<r["id"], "7day">> \in missed
          /\ Missed(r, "7day")

----------------------------------------------------------------------------
(* C13: get_new_comment_periods(lookback) returns exactly the stored rows with
   posted_date >= today - lookback, posted_new = 0 and comment_end_date >=
   today, newest posted first, today being the one calendar day of the run;
   so a row marked 'new' is absent from it and the others are still there. *)
C13_RecentUnposted ==
    \A lookback \in {1, 2} :
        LET result == get_new_comment_periods(comment_periods, lookback, 0, today, utcToday)
        IN  /\ RowsIn(result) =
                  {r \in comment_periods : /\ r["posted_date"] >= today - lookback
                                           /\ r["posted_new"] = 0
                                           /\ r["comment_end_date"] >= today}
            /\ \A l \in result : \A i, j \in 1..Len(l) :
                  i < j => l[i]["posted_date"] >= l[j]["posted_date"]

----------------------------------------------------------------------------
(* Vocabulary of the fetch properties *)

\* the step sends a request of the call in progress
Sends == nRequests' = nRequests + 1

\* the outcome of the request the step sends
Outcome == fp'.outcomes[Len(fp'.outcomes)]

\* the items of the first n pages, in page order
RECURSIVE FirstPages(_, _)
FirstPages(n, total) ==
    IF n = 0 THEN <<>> ELSE FirstPages(n - 1, total) \o PageItems(n, total)

----------------------------------------------------------------------------
(* C14 *)

\* what the pagination pass hands to its caller once it is over: the list it
\* returns, or nothing when an exception ends it
ReturnedDocuments == IF pg.pc = "done" THEN pg.all_documents ELSE <<>>

\* C14: pagination is fail-open: when the pass is over, what it hands to its
\* caller is the items, in page order, of the pages fetched before the first
\* page whose fetch failed (of all the pages fetched when none failed): no
\* item of a page already fetched is dropped because a later page failed.
C14_FailOpen ==
    pg.pc \in {"done", "raised"} =>
        LET n == IF pg.failedPage = 0 THEN Len(pg.served) ELSE pg.failedPage - 1
        IN  /\ pg.served = [i \in 1..n |-> i]
            /\ ReturnedDocuments = FirstPages(n, pg.totalPages)

----------------------------------------------------------------------------
(* C15: 429 responses do not use up retry attempts: a fetch_page call that
   ends with the failure value, its attempts used up, has met some outcome
   other than 429. *)
C15_TooManyRequestsIsFree ==
    (fp.pc = "returned" /\ fp.result = "None") =>
        \E i \in 1..Len(fp.outcomes) : fp.outcomes[i] /= "429"

----------------------------------------------------------------------------
(* C16: a 5xx response, a timeout and a connection failure are handled alike:
   each uses one attempt, the call sleeps 2^attempt seconds (attempt counted
   from 0) and sends the same request again, or returns the failure value
   when that was attempt max_retries - 1. *)
C16_BackoffRetry ==
    [][ (Sends /\ Outcome \in {"5xx", "timeout", "connection_error"}) =>
          /\ fp'.attempt = fp.attempt + 1
          /\ fp'.slept = Seconds(2 ^ fp.attempt)
          /\ clock' >= clock + Seconds(2 ^ fp.attempt)
          /\ fp'.self = fp.self /\ fp'.caller = fp.caller /\ pg' = pg
          /\ IF fp.attempt + 1 < max_retries
             THEN fp'.pc = "attempt" /\ fp'.result = "none"
             ELSE fp'.pc = "returned" /\ fp'.result = "None" ]_vars

\* a call has met a 5xx response, a timeout and a connection failure, has
\* slept 1, 2 and 4 seconds, and has returned the failure value
C16_Witness ==
    /\ fp.pc = "returned" /\ fp.result = "None"
    /\ fp.outcomes = <<"5xx", "timeout", "connection_error">>
    /\ fp.slept = Seconds(4)
    /\ clock >= StartTime + Seconds(7)

----------------------------------------------------------------------------
(* C17: a 4xx response other than 429 ends the call at once: it returns the
   failure value with no sleep, whatever the attempt, and sends no further
   request. *)
C17_ClientErrorIsFinal ==
    [][ /\ (Sends /\ Outcome = "4xx") =>
              /\ fp'.pc = "returned" /\ fp'.result = "None"
              /\ fp'.slept = 0
              /\ clock' - clock \in Latencies
        /\ (fp.pc = "returned" /\ fp.outcomes /= <<>>
                               /\ fp.outcomes[Len(fp.outcomes)] = "4xx") =>
              ~Sends ]_vars

\* a call has met a 4xx response on its second attempt and has returned the
\* failure value: two requests were sent
C17_Witness ==
    /\ fp.pc = "returned" /\ fp.result = "None"
    /\ fp.outcomes = <<"5xx", "4xx">>
    /\ fp.attempt = 1
    /\ Len(wire[fp.self]) = 2

----------------------------------------------------------------------------
(* C18: whatever the outcomes of its requests, fetch_page returns a response
   or the failure value: no exception leaves it. *)
C18_NoExceptionEscapes == fp.pc /= "raised"

----------------------------------------------------------------------------
(* C19: two consecutive requests of one scraper instance, retries included,
   are at least the rate_limit of the instance apart, and a step of one
   instance leaves the pacing state of the other as it was. *)
C19_MinimumInterval ==
    [][ Sends =>
          /\ wire[fp.self] /= <<>> =>
                clock - wire[fp.self][Len(wire[fp.self])] >= scraper[fp.self].rate_limit
          /\ \A other \in Instances \ {fp.self} :
                scraper'[other] = scraper[other] /\ wire'[other] = wire[other] ]_vars

----------------------------------------------------------------------------
(* C20: when enrich_period merges a period with the document of the secondary
   source, a non-empty abstract of the period stays, whatever the abstract of
   the secondary source; an empty or absent abstract of the period is
   replaced by a non-empty abstract of the secondary source. *)
C20_AbstractPrecedence ==
    LET period == enrichment.period
        fr_doc == enrichment.fr_doc.doc
        merged == /\ enrichment.pc = "returned"
                  /\ TruthyText(fr_doc_num(period))
                  /\ enrichment.fr_doc.found /\ DOMAIN fr_doc /= {}
    IN  merged =>
          /\ TruthyText(GetText(period, "abstract")) =>
                GetText(enrichment.enhanced, "abstract") = period["abstract"]
          /\ ( /\ GetText(period, "abstract") \in {NULL, ""}
               /\ TruthyText(GetText(fr_doc, "abstract")) ) =>
                GetText(enrichment.enhanced, "abstract") = fr_doc["abstract"]

\* a period with an empty abstract was merged with a document that has one
C20_Witness ==
    /\ enrichment.pc = "returned"
    /\ GetText(enrichment.period, "abstract") = ""
    /\ GetText(enrichment.fr_doc.doc, "abstract") = "secondary abstract"
    /\ GetText(enrichment.enhanced, "abstract") = "secondary abstract"

----------------------------------------------------------------------------
(* Vocabulary of the merge properties *)

\* enrich_period has returned after merging the period with a document
Merged ==
    /\ enrichment.pc = "returned"
    /\ TruthyText(fr_doc_num(enrichment.period))
    /\ enrichment.fr_doc.found
    /\ DOMAIN enrichment.fr_doc.doc /= {}

\* each token once, in the order of sorted()
StrictlySorted(list) ==
    \A i \in 1..Len(list) : \A j \in 1..Len(list) :
        i < j => TokenRank(list[i]) < TokenRank(list[j])

MergeFields == {"abstract", "keywords", "document_type"}

(* C21: when the document of the secondary source carries topics, the keywords
   of the merged period are the set union of the keywords of the period and
   the topics, each once and in sorted order, hence the same in whatever
   order the secondary source lists its topics. *)
C21_KeywordsUnion ==
    LET existing == GetList(enrichment.period, "keywords")
        topics == GetList(enrichment.fr_doc.doc, "topics")
        merged == GetList(enrichment.enhanced, "keywords")
    IN  (Merged /\ topics /= <<>>) =>
          /\ "keywords" \in DOMAIN enrichment.enhanced
          /\ Range(merged) = Range(existing) \cup Range(topics)
          /\ StrictlySorted(merged)

\* keywords "water, air" were merged with the topics water, Air quality
C21_Witness ==
    /\ Merged
    /\ GetList(enrichment.period, "keywords") = <<"water", "air">>
    /\ GetList(enrichment.fr_doc.doc, "topics") = <<"water", "Air quality">>
    /\ GetList(enrichment.enhanced, "keywords") = <<"Air quality", "air", "water">>

(* C22: the merge sets document_type from the action of the secondary source
   only when the document_type of the period is empty or absent; a non-empty
   document_type of the period is returned unchanged whatever the action. *)
C22_DocumentTypePrecedence ==
    LET period == enrichment.period
        fr_doc == enrichment.fr_doc.doc
    IN  Merged =>
          /\ TruthyText(GetText(period, "document_type")) =>
                GetText(enrichment.enhanced, "document_type") = period["document_type"]
          /\ ( /\ ~TruthyText(GetText(period, "document_type"))
               /\ TruthyText(GetText(fr_doc, "action")) ) =>
                GetText(enrichment.enhanced, "document_type") = fr_doc["action"]
          /\ ( /\ ~TruthyText(GetText(period, "document_type"))
               /\ ~TruthyText(GetText(fr_doc, "action")) ) =>
                /\ ("document_type" \in DOMAIN enrichment.enhanced)
                      = ("document_type" \in DOMAIN period)
                /\ GetText(enrichment.enhanced, "document_type")
                      = GetText(period, "document_type")

\* a Proposed Rule was merged with a document whose action is Notice
C22_Witness ==
    /\ Merged
    /\ GetText(enrichment.period, "document_type") = "Proposed Rule"
    /\ GetText(enrichment.fr_doc.doc, "action") = "Notice"
    /\ GetText(enrichment.enhanced, "document_type") = "Proposed Rule"

(* C23: enrich_period returns every field other than abstract, keywords and
   document_type as the period holds it, whatever get_document returned,
   and the period it was given is the same after the call. *)
C23_MergeFrame ==
    enrichment.pc = "returned" =>
      /\ DOMAIN enrichment.enhanced \ MergeFields = DOMAIN enrichment.period \ MergeFields
      /\ \A k \in DOMAIN enrichment.period \ MergeFields :
            enrichment.enhanced[k] = enrichment.period[k]
      /\ enrichment.argument = enrichment.period

\* a merge that changed the abstract, the keywords and the document type
C23_Witness ==
    /\ Merged
    /\ "federal_register_url" \in DOMAIN enrichment.enhanced
    /\ GetText(enrichment.enhanced, "abstract") /= GetText(enrichment.period, "abstract")
    /\ GetList(enrichment.enhanced, "keywords") /= GetList(enrichment.period, "keywords")
    /\ GetText(enrichment.enhanced, "document_type")
          /= GetText(enrichment.period, "document_type")

----------------------------------------------------------------------------
(* Vocabulary of the ingestion properties *)

\* what was noted of the documents the run has finished with
Traces == {scrapeRun.history[j] : j \in 1..Len(scrapeRun.history)}

\* the requests the run has issued for the document at an index of the list
RequestsFor(index) ==
    {scrapeRun.requests[j][1] : j \in {n \in 1..Len(scrapeRun.requests) :
                                          scrapeRun.requests[n][2] = index}}

\* the document reached "Save to database (unless dry run)"
ReachedSave(t) == t.outcome \in {"saved", "upsert_error", "dry_run"}

(* C24: when the secondary record is not obtained for a document (it carries
   no Federal Register URL, or get_document fails) the draft that reaches the
   upsert is the draft as it was before enrichment, and the document does
   reach the upsert; without a URL no request goes to the secondary source. *)
C24_NoEnrichmentPassThrough ==
    \A t \in Traces :
        (t.outcome /= "skipped" /\ t.details /= "ValueError" /\ t.secondary /= "document") =>
          /\ ReachedSave(t)
          /\ t.merged = t.primary
          /\ ~TruthyText(GetText(t.primary, "federal_register_url")) =>
                "federal_register" \notin RequestsFor(t.index)

(* C25: a dry run leaves the store as it was when the run started and calls
   no publisher, and dry or not a run issues the details request for every
   open document, the Federal Register request for every document that
   carries the URL after the details, and merges what it gets. *)
C25_DryRun ==
    /\ (scrapeRun.pc /= "idle" /\ scrapeRun.dry_run) =>
          /\ comment_periods = scrapeRun.before.comment_periods
          /\ bot_posts = scrapeRun.before.bot_posts
          /\ published = {} /\ failed = {} /\ run = NoRun /\ mp = NoCall
          /\ scrapeRun.stats.new = 0
    /\ \A t \in Traces :
          /\ (t.outcome /= "skipped" /\ scrapeRun.enrich) =>
                "details" \in RequestsFor(t.index)
          /\ (ReachedSave(t) /\ scrapeRun.enrich
                 /\ TruthyText(GetText(t.primary, "federal_register_url"))) =>
                "federal_register" \in RequestsFor(t.index)
          /\ t.secondary = "document" =>
                /\ ReachedSave(t)
                /\ GetText(t.merged, "abstract") \in {"detail summary", "secondary abstract"}
                /\ Range(GetList(t.merged, "keywords"))
                      = Range(GetList(t.primary, "keywords")) \cup {"water", "air"}
                /\ GetText(t.merged, "document_type") = "Notice"

\* a dry run has fetched the details and the Federal Register document of a
\* document, merged them and gone on without saving
C25_Witness ==
    /\ scrapeRun.pc = "done"
    /\ scrapeRun.dry_run
    /\ comment_periods = {}
    /\ \E t \in Traces :
          /\ t.secondary = "document"
          /\ t.outcome = "dry_run"
          /\ RequestsFor(t.index) = {"details", "federal_register"}
          /\ GetText(t.merged, "abstract") = "secondary abstract"

(* C26: a failure while one document is processed never aborts the run: once
   pagination has returned its list the run ends with its summary, having
   processed every document of the list in order, and the error count of the
   summary is the number of documents whose processing failed. *)
C26_PerItemFailures ==
    /\ (scrapeRun.pagination /= "raised") => scrapeRun.pc /= "aborted"
    /\ scrapeRun.pc = "done" =>
          /\ Len(scrapeRun.history) = Len(scrapeRun.documents)
          /\ \A j \in 1..Len(scrapeRun.history) : scrapeRun.history[j].index = j
          /\ scrapeRun.stats.errors =
                Cardinality({j \in 1..Len(scrapeRun.history) :
                               scrapeRun.history[j].outcome \in {"error", "upsert_error"}})

(* C28: every stored row has comment_end_date >= posted_date, and an upsert
   of the run whose draft has comment_end_date before posted_date raises:
   the tables stay as they are and the run counts one more error. *)
C28_EndNotBeforePosted ==
    /\ [](\A r \in comment_periods : r["comment_end_date"] >= r["posted_date"])
    /\ [][ ( /\ scrapeRun.pc = "save"
             /\ ~scrapeRun.dry_run
             /\ scrapeRun.parsed["comment_end_date"] < scrapeRun.parsed["posted_date"]
             /\ scrapeRun' /= scrapeRun ) =>
           ( /\ comment_periods' = comment_periods
             /\ bot_posts' = bot_posts
             /\ sqlite_sequence' = sqlite_sequence
             /\ last'.op = "upsert_raise"
             /\ scrapeRun'.stats.errors = scrapeRun.stats.errors + 1
             /\ scrapeRun'.stats.new = scrapeRun.stats.new ) ]_vars

\* the run has stored FDA-2 and then met its version that ends before it is
\* posted: the row is the one stored first and the error is counted
C28_Witness ==
    /\ scrapeRun.pc = "done"
    /\ scrapeRun.stats.errors = 1
    /\ scrapeRun.stats.new = 1
    /\ Len(scrapeRun.history) = 2
    /\ scrapeRun.history[2].outcome = "upsert_error"
    /\ \E r \in comment_periods :
          r["document_id"] = "FDA-2" /\ r["posted_date"] = 0 /\ r["comment_end_date"] = 1

(* C29: when a page fetch fails during pagination the run is not aborted and
   its summary reports at least one error. *)
C29_PageFailureSurfaced ==
    scrapeRun.pagination = "page_failed" =>
      /\ scrapeRun.pc /= "aborted"
      /\ scrapeRun.pc = "done" => scrapeRun.stats.errors >= 1

----------------------------------------------------------------------------
(* C27: a publisher failure for one period of a notification run does not
   abort the run: the snapshot taken at the start holds each eligible period
   once, the failure moves the run on to the next period, and every period of
   the snapshot gets exactly one publish attempt: at any time the attempts
   made followed by the periods still ahead are the snapshot. *)
C27_FailureDoesNotAbort ==
    /\ [] ( /\ \A i \in 1..Len(run.snapshot) : \A j \in 1..Len(run.snapshot) :
                  i /= j => run.snapshot[i] /= run.snapshot[j]
            /\ run.attempted \o (IF run.pc = "mark" THEN Tail(run.todo) ELSE run.todo)
                  = run.snapshot
            /\ run.pc = "idle" => run.attempted = run.snapshot )
    /\ [][ (run.pc = "idle" /\ run' /= run) =>
             {run'.snapshot[i] : i \in 1..Len(run'.snapshot)} =
               {r["id"] : r \in {x \in comment_periods :
                                   /\ x[FlagOfMilestone(run'.milestone)] = 0
                                   /\ InWindow(x, run'.milestone, today, utcToday)}} ]_vars
    /\ [][ PublisherFailed =>
             /\ run'.snapshot = run.snapshot
             /\ run'.attempted = Append(run.attempted, Head(run.todo))
             /\ run'.todo = Tail(run.todo)
             /\ run'.pc = IF Tail(run.todo) = <<>> THEN "idle" ELSE "publish" ]_vars

\* a run over two periods has ended: the publisher failed for the first and
\* accepted the second
C27_Witness ==
    /\ run.pc = "idle"
    /\ Len(run.snapshot) = 2
    /\ run.attempted = run.snapshot
    /\ <<run.snapshot[1], run.milestone>> \in failed \ published
    /\ <<run.snapshot[2], run.milestone>> \in dispatched

----------------------------------------------------------------------------
(* C30: two upsert calls on one document_id by concurrent writers leave one
   row for the document: a call that returns has its update in the row, the
   fields the drafts supply being those of the serial execution of the
   returned calls in the order of their commits, both calls return the id of
   that row, and a call whose update is not in the row has raised. *)
C30_AtomicUpsert ==
    LET calls == upserts.calls
        over == \A w \in Writers : calls[w].pc \in {"returned", "raised"}
        drafts == [i \in 1..Len(upserts.order) |-> calls[upserts.order[i]].draft]
        Supplied(c) == {i \in 1..Len(drafts) : c \in fields(drafts[i])}
        Latest(c) == CHOOSE i \in Supplied(c) : \A j \in Supplied(c) : j <= i
    IN  /\ \A doc \in {r["document_id"] : r \in comment_periods} :
              Cardinality(RowsOfDocument(comment_periods, doc)) = 1
        /\ over =>
              /\ \A w \in Writers :
                    calls[w].pc = "returned" <=> \E i \in 1..Len(upserts.order) : upserts.order[i] = w
              /\ upserts.order /= <<>> =>
                    \E r \in comment_periods :
                        /\ comment_periods = {r}
                        /\ \A w \in Writers : calls[w].pc = "returned" => calls[w].period_id = r["id"]
                        /\ \A c \in base_fields \cup optional_fields :
                              r[c] = IF Supplied(c) = {} THEN NULL
                                     ELSE excluded(drafts[Latest(c)])[c]

\* both calls were in progress together and both have returned: the row has
\* the title and deadline of the later commit and the abstract of the earlier
C30_Witness ==
    /\ \A w \in Writers : upserts.calls[w].pc = "returned"
    /\ upserts.calls["w2"].concurrent
    /\ upserts.order = <<"w1", "w2">>
    /\ upserts.calls["w1"].draft.title = "t1"
    /\ upserts.calls["w2"].draft.title = "t2"
    /\ \E r \in comment_periods :
          r["title"] = "t2" /\ r["abstract"] = "a1" /\ r["document_type"] = "Rule"

(* C31: the queries get_new_comment_periods, get_closing_soon, get_all_open_periods
   and get_period_by_document_id are read-only: over a call, the one that raises
   for its argument included, the rows with all their fields and flags, the
   row counter and the dispatch records are what they were before it. *)
C31_QueriesReadOnly ==
    [][(nOps' = nOps + 1 /\ last'.op \in QueryOps)
          => /\ comment_periods' = comment_periods
             /\ bot_posts' = bot_posts
             /\ sqlite_sequence' = sqlite_sequence]_vars

\* a query has returned a row that no dispatch has marked yet
C31_Witness ==
    /\ last.op = "get_new_comment_periods"
    /\ last.period_id >= 1
    /\ \E r \in comment_periods : r["posted_new"] = 0

(* C32: a failure to reach the store is fatal to an ingestion run: a run in
   which upsert_comment_period could not connect to the store does not
   complete with a summary. *)
C32_StoreFailureFatal ==
    (/\ ConnectFails(scrapeRun)
     /\ \E i \in 1..Len(scrapeRun.history) : scrapeRun.history[i].outcome = "upsert_error")
        => ~scrapeRun.summary

(* C33: the summary of a run that saves tells inserts from updates: 'new' is
   the number of saved documents whose document_id was not stored before the
   run, 'updated' the number of those whose document_id was. *)
C33_HonestCounts ==
    (scrapeRun.pc = "done" /\ ~scrapeRun.dry_run) =>
        LET saved == {i \in 1..Len(scrapeRun.history) : scrapeRun.history[i].outcome = "saved"}
            existed(i) == \E r \in scrapeRun.before.comment_periods :
                             r["document_id"] = scrapeRun.history[i].merged["document_id"]
        IN  /\ scrapeRun.stats.new = Cardinality({i \in saved : ~existed(i)})
            /\ scrapeRun.stats.updated = Cardinality({i \in saved : existed(i)})

(* C39: re-ingesting a stored document erases no stored text: when the saved
   draft has an empty abstract (or document_type) and the row stored before the
   run had a non-empty one, the row still has it after the upsert. *)
C39_NoErasure ==
    \A i \in 1..Len(scrapeRun.history) :
        \A r0 \in scrapeRun.before.comment_periods, r \in comment_periods :
            LET h == scrapeRun.history[i]
            IN  (/\ h.outcome = "saved"
                 /\ r0["document_id"] = h.merged["document_id"]
                 /\ r["document_id"] = r0["document_id"])
                => \A k \in {"abstract", "document_type"} :
                      (~TruthyText(GetText(h.merged, k)) /\ TruthyText(r0[k]))
                          => r[k] = r0[k]

(* C34: whatever the server answers (success, 429, 5xx, 4xx, timeout,
   connection error), one fetch_page call ends after at most max_retries HTTP
   requests: while the call is in its loop every request it has sent has used
   up one attempt and attempts remain, and once it has ended it has sent
   at most max_retries requests. *)
C34_FetchPageBounded ==
    /\ Len(fp.outcomes) <= max_retries
    /\ fp.pc = "attempt" => (Len(fp.outcomes) = fp.attempt /\ fp.attempt < max_retries)
    /\ fp.pc \in {"returned", "raised"} => Len(fp.outcomes) \in 1..max_retries

\* a call that was rate limited, then failed twice more, has returned None
C34_Witness ==
    /\ fp.pc = "returned"
    /\ fp.result = "None"
    /\ Len(fp.outcomes) = max_retries
    /\ fp.outcomes[1] = "429"
    /\ fp.outcomes[max_retries] \in {"5xx", "timeout", "connection_error"}

(* C35: a pagination pass requests the pages 1, 2, 3, ... in turn, none
   twice and none skipped; it goes on after a page only when the page was
   parsed and its number is below the totalPages reported with it (1 when the
   meta is absent), stops at the first page that is not, or whose fetch or
   parse fails, and never requests a page beyond the reported total. *)
C35_PaginationPass ==
    /\ \A i \in 1..Len(pg.served) : pg.served[i] = i
    /\ Len(pg.reported) = Len(pg.served)
    /\ \A i \in 1..(Len(pg.served) - 1) : pg.served[i] < pg.reported[i]
    /\ pg.pc \in {"loop", "wait"} =>
          /\ pg.page = Len(pg.served) + 1
          /\ pg.failedPage = 0
          /\ \A i \in 1..Len(pg.served) : pg.served[i] < pg.reported[i]
    /\ (pg.pc = "done" /\ pg.failedPage = 0) =>
          /\ pg.served /= <<>>
          /\ pg.served[Len(pg.served)] >= pg.reported[Len(pg.served)]
    /\ pg.failedPage /= 0 =>
          /\ pg.pc \in {"done", "raised"}
          /\ pg.failedPage = Len(pg.served) + 1
    /\ pg.page <= pg.totalPages

\* a pass has fetched three pages and stopped at the reported total
C35_Witness ==
    /\ pg.pc = "done"
    /\ pg.served = <<1, 2, 3>>
    /\ pg.reported = <<3, 3, 3>>
    /\ pg.failedPage = 0

(* C36: between calls, whatever upserts and mark_posted calls came before
   and whatever period ids they were given, every record of bot_posts names
   the id of a stored row, and that row's flag for the record's post_type is
   set. *)
C36_RecordsReferToMarkedRows ==
    mp.pc = "none" =>
        \A i \in 1..Len(bot_posts) :
            \E r \in comment_periods :
                /\ r["id"] = bot_posts[i].comment_period_id
                /\ r[field_map(bot_posts[i].post_type)] = 1

(* C37: mark_posted with a post_type other than new, 7day, 3day and last_day
   raises: no such call gets as far as a statement, and over the raising call
   every row with its flags, the row counter and the records of bot_posts
   are unchanged. *)
C37_InvalidPostTypeRejected ==
    [][/\ mp'.pc /= "none" => mp'.post_type \in PostTypes
       /\ (nOps' = nOps + 1 /\ mp' = mp /\ last'.op = "mark_invalid")
             => /\ last'.post_type \notin PostTypes
                /\ comment_periods' = comment_periods
                /\ bot_posts' = bot_posts
                /\ sqlite_sequence' = sqlite_sequence
                /\ txn' = txn]_vars

\* mark_posted has raised for post_type reminder_7d on a stored row, whose
\* flags are all unset
C37_Witness ==
    /\ last.op = "mark_invalid"
    /\ last.post_type = "reminder_7d"
    /\ Truthy(last.post_uri)
    /\ bot_posts = <<>>
    /\ \E r \in comment_periods :
          /\ r["id"] = last.period_id
          /\ \A f \in PostedFlags : r[f] = 0

\* two periods are the same draft: the same keys, the same values, the
\* keywords compared as the texts they are serialized to
SameDraft(a, b) ==
    /\ DOMAIN a = DOMAIN b
    /\ \A k \in DOMAIN a :
          IF k = "keywords" THEN Join(a[k]) = Join(b[k]) ELSE a[k] = b[k]

(* C38: enrichment is idempotent: enrich_period applied to the period it has
   returned, with the same document of the secondary source, returns an equal
   period, the keywords text included. *)
C38_EnrichIdempotent ==
    enrichment.pc = "again" => SameDraft(enrichment.again, enrichment.enhanced)

====
